---- MODULE Spec2Model ----
(***************************************************************************)
(* A model of libschemaregistry's client runtime:                          *)
(*   - OAuthToken / OAuthClientProvider (src/src/rest/OAuthProvider.cpp,   *)
(*     declarations in src/include/schemaregistry/rest/BackoffUtils.h),    *)
(*   - the backoff utilities (src/src/rest/BackoffUtils.cpp),              *)
(*   - the cache-fronted lookups of SchemaRegistryClient                   *)
(*     (src/src/rest/SchemaRegistryClient.cpp).                            *)
(*                                                                         *)
(* OAuthProvider.cpp holds two revisions of the provider.  The model       *)
(* follows the first one (lines 1-193: std::shared_mutex, double-checked   *)
(* locking, fetch_token returning the token), which is the one the header  *)
(* declares.                                                               *)
(*                                                                         *)
(* Time: system_clock is modelled as an integer number of ticks,           *)
(* TicksPerSec ticks to the second, so that instants between two whole     *)
(* seconds exist.  token_refresh_threshold is the rational th / ThDen.     *)
(* The code computes expires_in_seconds * (1 - threshold) in double; the   *)
(* model computes it exactly, which agrees with the double computation     *)
(* whenever the threshold is a dyadic rational (0, 0.25, 0.5, 0.75, 1).    *)
(***************************************************************************)
EXTENDS Integers, Sequences, FiniteSets, TLC

\* ------------------------------------------------------------------ bounds
NThreads == 2          \* caller threads
MaxClock == 3          \* system_clock stops advancing at this tick
TicksPerSec == 2       \* clock resolution of the model
ThDen == 4             \* thresholds are th / ThDen, th in 0 .. ThDen
MaxRetriesCfg == 1     \* config_.max_retries ranges over 0 .. MaxRetriesCfg
MaxExpiresIn == 2      \* expires_in of a token response ranges over 0 .. MaxExpiresIn
Width == 4             \* bits of std::uint32_t in the model (32 in the code)
JDen == 4              \* jitter is j / JDen, j in 0 .. JDen - 1
MaxStatus == 600       \* status codes are -1 .. MaxStatus
LatestTtlTicks == 2    \* ttl of the latest-version caches, in ticks
MaxCalls == 3          \* get_bearer_fields calls made on one CustomOAuthProvider
MaxDelay == 2          \* retry_base_delay_ms and retry_max_delay_ms range over 0 .. MaxDelay
MaxPayload == 2        \* bytes of a message payload

Threads == 1 .. NThreads
NoThread == 0

VARIABLES
  config_,     \* OAuthClientProvider::config_  (const after construction)
  token_,      \* OAuthClientProvider::token_
  mutex_,      \* OAuthClientProvider::mutex_ : [writer, readers]
  now,         \* std::chrono::system_clock::now(), in ticks
  pc,          \* pc[t]: where thread t is inside get_bearer_fields / invalidate_token
  attempt,     \* attempt[t]: fetch_token's local `attempt`
  response,    \* response[t]: fetch_token's local `response` (the last reply t received)
  reqs,        \* reqs[t]: HTTP requests the token endpoint received from t's current call
  result,      \* result[t]: what t's last call returned or threw
  probe,       \* the last direct OAuthToken::is_expired call, and when token_ was made
  bk,          \* the last call of a backoff utility: its arguments and what it gave
  store,       \* SchemaRegistryClient::store: the entries of its views
  latestVersionCache,  \* SchemaRegistryClient::latestVersionCache: subject -> entry
  latestWithMetadataCache,  \* SchemaRegistryClient::latestWithMetadataCache
  cpc,         \* cpc[t]: where thread t is inside a SchemaRegistryClient operation
  ckey,        \* ckey[t]: the operation and key of t's current client call
  creq,        \* creq[t]: HTTP requests the registry received from t's current call
  cresp,       \* cresp[t]: status, parsability, id and guid of the reply t's call got
  cres,        \* cres[t]: what t's last client call returned or threw
  cleared,     \* cleared[t]: clearCaches began after t's current call sent its request
  custom,      \* a CustomOAuthProvider, what its fetch_fn_ gave and what its calls gave
  staticProvider,  \* a StaticTokenProvider: its arguments, fields_, what each thread got
  factory,     \* the last OAuthProviderFactory::create call: its map and what it gave
  validated,   \* the last Config::validate call: which definition, the Config, what it threw
  deserialized, \* the last JsonDeserializer::deserialize call: what it was given, what it gave
  keyed,       \* createMetadataKey: the first call's arguments and key, the second's compared
  named        \* the last getJsonSchemaRecordName call: the schema given, the name returned

oauthVars == <<config_, token_, mutex_, now, pc, attempt, response, reqs, result>>

\* the components that share nothing with the ones above
otherVars == <<custom, staticProvider, factory, validated, deserialized, keyed, named>>

clientVars ==
  <<store, latestVersionCache, latestWithMetadataCache, cpc, ckey, creq, cresp, cres,
    cleared>>

\* what the provider's operations leave alone
notOAuth ==
  <<probe, bk, store, latestVersionCache, latestWithMetadataCache, cpc, ckey, creq,
    cresp, cres, cleared, otherVars>>

\* what a direct OAuthToken call leaves alone
notToken == <<mutex_, pc, attempt, response, reqs, result,
              bk, store, latestVersionCache, latestWithMetadataCache, cpc, ckey, creq,
              cresp, cres, cleared, otherVars>>

\* what a backoff utility leaves alone
notBackoff == <<config_, token_, mutex_, now, pc, attempt, response, reqs, result, probe,
                store, latestVersionCache, latestWithMetadataCache, cpc, ckey, creq,
                cresp, cres, cleared, otherVars>>

\* what a SchemaRegistryClient operation leaves alone
notClient ==
  <<config_, token_, mutex_, now, pc, attempt, response, reqs, result, probe, bk,
    otherVars>>

\* ------------------------------------------------------- OAuthToken (header)
DefaultExpiresIn == 3600

\* OAuthToken{} : access_token "", expires_at epoch, expires_in_seconds 0
EmptyToken == [access_token |-> "", expires_at |-> 0, expires_in_seconds |-> 0]

is_valid(tok) == tok.access_token # ""

\* static_cast<int>(x) of the rational n / d: truncation toward zero
Trunc(n, d) == IF n >= 0 THEN n \div d ELSE -((-n) \div d)

refresh_buffer_elapsed(tok, th) == Trunc(tok.expires_in_seconds * th, ThDen)

\* static_cast<int>(expires_in_seconds * (1 - threshold)), in seconds
refresh_buffer(tok, th) == Trunc(tok.expires_in_seconds * (ThDen - th), ThDen)

is_expired_inclusive(tok, th, t) ==
  IF ~is_valid(tok) THEN TRUE
  ELSE (tok.expires_at - refresh_buffer(tok, th) * TicksPerSec) <= t

\* OAuthToken::is_expired(threshold), with `t` the value now() returns inside it
is_expired(tok, th, t) ==
  IF ~is_valid(tok) THEN TRUE
  ELSE (tok.expires_at - refresh_buffer(tok, th) * TicksPerSec) < t

\* ------------------------------------------------------ token endpoint replies
\* What cpr::Post can return: a status and a body.  `kind` is the shape of the
\* body: "token" (a JSON object with a string access_token and, when has_exp,
\* an integer expires_in), "missing" (JSON without access_token), "badtype"
\* (JSON whose access_token is not a string), "garbage" (not JSON), "text".
Reply(s, k, a, h, e, x) ==
  [status |-> s, kind |-> k, access_token |-> a, has_exp |-> h, expires_in |-> e, text |-> x]

\* `response` before any reply has arrived
NoReply == Reply(-1, "none", "", FALSE, 0, "")

TokenReplies ==
  {Reply(200, "token", "tokA", TRUE, e, "json") : e \in 1 .. MaxExpiresIn}
    \cup {Reply(200, "token", "tokB", TRUE, 1, "json")}

OddTokenReplies ==
  {Reply(200, "token", "tokA", TRUE, 0, "json"),
   Reply(200, "token", "tokA", FALSE, 0, "json"),
   Reply(200, "token", "", TRUE, 1, "json")}

UnparsableReplies ==
  {Reply(200, "missing", "", FALSE, 0, "json"),
   Reply(200, "badtype", "", FALSE, 0, "json"),
   Reply(200, "garbage", "", FALSE, 0, "garbage")}

FailureReplies ==
  {Reply(0, "text", "", FALSE, 0, ""),
   Reply(302, "text", "", FALSE, 0, ""),
   Reply(400, "text", "", FALSE, 0, "bad request"),
   Reply(503, "text", "", FALSE, 0, "busy")}

Replies == TokenReplies \cup OddTokenReplies \cup UnparsableReplies \cup FailureReplies

\* the replies the many-caller specification draws from
CoreReplies ==
  {Reply(200, "token", "tokA", TRUE, 1, "json"),
   Reply(200, "token", "tokB", TRUE, MaxExpiresIn, "json"),
   Reply(200, "garbage", "", FALSE, 0, "garbage"),
   Reply(503, "text", "", FALSE, 0, "busy")}

\* ------------------------------------------------------------ BackoffUtils
\* utils::isRetriable(status_code)
isRetriable_5xx(status_code) ==
  status_code = 408 \/ status_code = 429 \/ (status_code >= 500 /\ status_code <= 599)

isRetriable(status_code) ==
     status_code = 408
  \/ status_code = 429
  \/ status_code = 500
  \/ status_code = 502
  \/ status_code = 503
  \/ status_code = 504

\* ------------------------------------------------- OAuthClientProvider (rev. 1)
\* What a call hands back to its caller: BearerFields, or the exception thrown.
NoResult ==
  [kind |-> "none", access_token |-> "", logical_cluster |-> "", identity_pool_id |-> "",
   what |-> "", status |-> 0, text |-> ""]

BearerFields(tok, cfg) ==
  [kind |-> "ok", access_token |-> tok.access_token,
   logical_cluster |-> cfg.logical_cluster, identity_pool_id |-> cfg.identity_pool_id,
   what |-> "", status |-> 0, text |-> ""]

\* std::runtime_error thrown by fetch_token; `what` is which message it carries:
\*   "status"  : "OAuth token request failed with status <status>[: <text>]"
\*   "parse"   : "Failed to parse OAuth token response: <json exception>"
\*   "missing" : "OAuth token response missing 'access_token' field"
AuthError(w, s, x) ==
  [kind |-> "error", access_token |-> "", logical_cluster |-> "", identity_pool_id |-> "",
   what |-> w, status |-> s, text |-> x]

VoidResult ==
  [kind |-> "void", access_token |-> "", logical_cluster |-> "", identity_pool_id |-> "",
   what |-> "", status |-> 0, text |-> ""]

\* the token built from a parsable 2xx reply read at clock value t
NewToken(r, t) ==
  LET e == IF r.has_exp THEN r.expires_in ELSE DefaultExpiresIn
  IN [access_token |-> r.access_token, expires_at |-> t + e * TicksPerSec,
      expires_in_seconds |-> e]

\* `should_retry` of fetch_token for a reply that is not 2xx
should_retry(status) ==
  IF status = 0 THEN TRUE
  ELSE IF status >= 400 THEN isRetriable(status)
  ELSE FALSE

Is2xx(status) == status >= 200 /\ status < 300

\* `!should_retry || attempt >= config_.max_retries`
GiveUp_gt(status, att, cfg) == ~should_retry(status) \/ att > cfg.max_retries

GiveUp(status, att, cfg) == ~should_retry(status) \/ att >= cfg.max_retries

Fresh_inverted(tok, cfg, t) == is_valid(tok) /\ is_expired(tok, cfg.token_refresh_threshold, t)

\* `token_.is_valid() && !token_.is_expired(config_.token_refresh_threshold)`,
\* under the shared lock
Fresh(tok, cfg, t) == is_valid(tok) /\ ~is_expired(tok, cfg.token_refresh_threshold, t)

Recheck_missing(tok, cfg, t) == FALSE

\* the same condition, re-checked under the exclusive lock
Recheck(tok, cfg, t) == is_valid(tok) /\ ~is_expired(tok, cfg.token_refresh_threshold, t)

InvalidatedToken_kept(tok) == tok

\* `token_ = OAuthToken{}` of invalidate_token
InvalidatedToken(tok) == EmptyToken

SharedFree(m) == m.writer = NoThread
ExclusiveFree_readersOnly(m) == m.readers = {}
ExclusiveFree(m) == m.writer = NoThread /\ m.readers = {}

Configs ==
  [token_refresh_threshold : {0, ThDen \div 2, ThDen}, max_retries : {0, MaxRetriesCfg},
   logical_cluster : {"lsrc-1"}, identity_pool_id : {"pool-1"}]

\* --------------------------------------- the other components, before any call
\* no is_expired call made yet; born is the tick token_ was created by a fetch
\* (-1: token_ was not created by a fetch)
NoProbe ==
  [done |-> FALSE, expired |-> FALSE, at |-> 0, th |-> 0, born |-> -1]

NoBk ==
  [fn |-> "none", status_code |-> 0, initial_backoff_ms |-> 0, retry_attempt |-> 0,
   max_backoff |-> 0, jitter |-> 0, retriable |-> FALSE, delay |-> 0, fault |-> FALSE]

\* the subject and the schema id the lookups are made with
Subjects == {"s1"}
Ids == {1}

\* schema contents: the one a caller submits, and what the registry makes of it
\* when it normalises
Schemas == {"A", "An"}

\* the version the lookups by version are made with
Versions == {1}

\* a RegisteredSchema, as far as the caches and the callers tell them apart
RegisteredSchema(id, version, schema) ==
  [id |-> id, version |-> version, schema |-> schema]

NoValue == RegisteredSchema(0, 0, "")

\* an absent entry of a latest-version cache
NoEntry == [present |-> FALSE, inserted_at |-> 0, value |-> NoValue]

NoKey ==
  [op |-> "none", subject |-> "", id |-> 0, guid |-> "", version |-> 0, schema |-> "",
   deleted |-> FALSE, format |-> ""]

NoCRes == [kind |-> "none", status |-> 0, value |-> NoValue]

\* what a call keeps of a reply for its checks; -1: no reply received
Checked(status, parsable, id, guid) ==
  [status |-> status, parsable |-> parsable, id |-> id, guid |-> guid]

NoCResp == Checked(-1, FALSE, 0, "")

\* SchemaRegistryClient's constructor: an empty store, empty caches
ClientInit ==
  /\ store = {}
  /\ latestVersionCache = [s \in Subjects |-> NoEntry]
  /\ latestWithMetadataCache = [s \in Subjects |-> NoEntry]
  /\ cpc = [t \in Threads |-> "idle"]
  /\ ckey = [t \in Threads |-> NoKey]
  /\ creq = [t \in Threads |-> 0]
  /\ cresp = [t \in Threads |-> NoCResp]
  /\ cres = [t \in Threads |-> NoCRes]
  /\ cleared = [t \in Threads |-> FALSE]

\* no CustomOAuthProvider constructed
NoCustom ==
  [made |-> FALSE, error |-> "", logical_cluster_ |-> "", identity_pool_id_ |-> "",
   produced |-> <<>>, returned |-> <<>>]

\* no StaticTokenProvider constructed
NoStatic ==
  [made |-> FALSE, error |-> "",
   args |-> [token |-> "", logical_cluster |-> "", identity_pool_id |-> ""],
   fields_ |-> NoResult, got |-> [t \in Threads |-> NoResult], calls |-> 0]

\* the keys OAuthProviderFactory reads, and what a map can hold under a key
SourceKey == "bearer.auth.credentials.source"

StaticKeys ==
  <<"bearer.auth.token", "bearer.auth.logical.cluster", "bearer.auth.identity.pool.id">>

OAuthKeys ==
  <<"bearer.auth.client.id", "bearer.auth.client.secret", "bearer.auth.scope",
    "bearer.auth.issuer.endpoint.url", "bearer.auth.logical.cluster",
    "bearer.auth.identity.pool.id">>

Range(seq) == {seq[i] : i \in DOMAIN seq}

FactoryKeys == {SourceKey} \cup Range(StaticKeys) \cup Range(OAuthKeys)

Absent == [present |-> FALSE, value |-> ""]

Mapped(value) == [present |-> TRUE, value |-> value]

NoFactoryError == [what |-> "", key |-> "", value |-> ""]

\* OAuthProviderFactory::create not called
NoFactory ==
  [called |-> FALSE, config |-> [key \in FactoryKeys |-> Absent], provider |-> "none",
   error |-> NoFactoryError]

\* an OAuthClientProvider::Config as validate reads it; the threshold is
\* token_refresh_threshold * ThDen
ValidConfig ==
  [client_id |-> "client-id", client_secret |-> "client-secret",
   scope |-> "schema_registry", token_endpoint_url |-> "https://idp.example.com/token",
   logical_cluster |-> "lsrc-123", identity_pool_id |-> "pool-456",
   max_retries |-> 1, retry_base_delay_ms |-> 1, retry_max_delay_ms |-> 1,
   token_refresh_threshold |-> ThDen, http_timeout_seconds |-> 1]

\* Config::validate not called
NoValidated == [called |-> FALSE, definition |-> 0, cfg |-> ValidConfig, error |-> ""]

\* what a deserialize call is given: the subject the name strategy gives
\* without a schema (initial_subject) and with the writer schema (subject), what
\* getReaderSchema answers under each ("none": it throws; a schema the "same"
\* as the writer's; a "newer" one; a "broken" one, newer with a migration that
\* fails), how the schema id is framed, the payload, the writer schema's rules
\* ("none", "encoding", "encoding_failing", "domain", "failing": a domain rule
\* that fails with onFailure ERROR), the validate flag and whether the final
\* value conforms to the reader schema
NoDeserializeInput ==
  [initial_subject |-> "", initial_reader |-> "none", subject |-> "",
   framing |-> "prefix", payload |-> <<>>, reader |-> "none",
   rules |-> "none", validate |-> FALSE, conforms |-> FALSE]

NoJson == [kind |-> "none", value |-> <<>>]

\* deserialize not called
NoDeserialized ==
  [called |-> FALSE, input |-> NoDeserializeInput, output |-> NoJson, ran |-> <<>>,
   reader_schema_raw |-> [schema |-> "none", subject |-> ""]]

\* no createMetadataKey call made yet
NoKeyed ==
  [calls |-> 0, subject |-> <<>>, metadata |-> <<>>, key |-> <<>>,
   same_key |-> FALSE, same_input |-> FALSE]

\* a member of a JSON object: absent, a number, or a string with its text
Member(is, text) == [is |-> is, text |-> text]

\* an optional Schema with no value, or a Schema with no schema text
NoSchema == [kind |-> "absent", title |-> Member("absent", <<>>),
             id |-> Member("absent", <<>>)]

\* getJsonSchemaRecordName not called
NoNamed == [called |-> FALSE, schema |-> NoSchema, name |-> <<>>]

OthersInit ==
  /\ custom = NoCustom
  /\ staticProvider = NoStatic
  /\ factory = NoFactory
  /\ validated = NoValidated
  /\ deserialized = NoDeserialized
  /\ keyed = NoKeyed
  /\ named = NoNamed

\* a provider right after construction, nothing else in use
ProviderInit ==
  /\ token_ = EmptyToken
  /\ mutex_ = [writer |-> NoThread, readers |-> {}]
  /\ now = 0
  /\ pc = [t \in Threads |-> "idle"]
  /\ attempt = [t \in Threads |-> 0]
  /\ response = [t \in Threads |-> NoReply]
  /\ probe = NoProbe
  /\ reqs = [t \in Threads |-> 0]
  /\ result = [t \in Threads |-> NoResult]

OAuthInit ==
  /\ ProviderInit
  /\ bk = NoBk
  /\ ClientInit
  /\ OthersInit

\* a thread enters get_bearer_fields:
\* std::shared_lock<std::shared_mutex> read_lock(mutex_)
StartCall(t, from) ==
  /\ pc[t] = from
  /\ SharedFree(mutex_)
  /\ mutex_' = [mutex_ EXCEPT !.readers = @ \cup {t}]
  /\ pc' = [pc EXCEPT ![t] = "rcheck"]
  /\ attempt' = [attempt EXCEPT ![t] = 0]
  /\ response' = [response EXCEPT ![t] = NoReply]
  /\ reqs' = [reqs EXCEPT ![t] = 0]
  /\ result' = [result EXCEPT ![t] = NoResult]
  /\ UNCHANGED <<config_, token_, now>>
  /\ UNCHANGED notOAuth

Call(t) == StartCall(t, "idle")

CallAgain(t) == StartCall(t, "done")

ReleaseShared_kept(m, t) == m

\* read_lock goes out of scope: the end of the block, or the return inside it
ReleaseShared(m, t) == [m EXCEPT !.readers = @ \ {t}]

\* the check under the shared lock; read_lock is released on either path
ReadCheck(t) ==
  /\ pc[t] = "rcheck"
  /\ mutex_' = ReleaseShared(mutex_, t)
  /\ IF Fresh(token_, config_, now)
       THEN /\ result' = [result EXCEPT ![t] = BearerFields(token_, config_)]
            /\ pc' = [pc EXCEPT ![t] = "done"]
       ELSE /\ pc' = [pc EXCEPT ![t] = "wlock"]
            /\ UNCHANGED result
  /\ UNCHANGED <<config_, token_, now, attempt, response, reqs>>
  /\ UNCHANGED notOAuth

\* std::unique_lock<std::shared_mutex> write_lock(mutex_) and the re-check under
\* it: on a fresh token return (unlocking), else enter fetch_token with the lock held
WriteCheck(t) ==
  /\ pc[t] = "wlock"
  /\ ExclusiveFree(mutex_)
  /\ IF Recheck(token_, config_, now)
       THEN /\ result' = [result EXCEPT ![t] = BearerFields(token_, config_)]
            /\ pc' = [pc EXCEPT ![t] = "done"]
            /\ UNCHANGED mutex_
       ELSE /\ pc' = [pc EXCEPT ![t] = "post"]
            /\ mutex_' = [mutex_ EXCEPT !.writer = t]
            /\ UNCHANGED result
  /\ UNCHANGED <<config_, token_, now, attempt, response, reqs>>
  /\ UNCHANGED notOAuth

\* fetch_token: cpr::Post is issued
SendRequest(t) ==
  /\ pc[t] = "post"
  /\ pc' = [pc EXCEPT ![t] = "http"]
  /\ reqs' = [reqs EXCEPT ![t] = @ + 1]
  /\ UNCHANGED <<config_, token_, mutex_, now, attempt, response, result>>
  /\ UNCHANGED notOAuth

\* fetch_token: cpr::Post returns r; the rest of the loop body, and on return or
\* throw the rest of get_bearer_fields (token_ = new_token, unlock)
ReceiveResponse(t, r) ==
  /\ pc[t] = "http"
  /\ response' = [response EXCEPT ![t] = r]
  /\ IF Is2xx(r.status)
       THEN IF r.kind = "token"
              THEN /\ token_' = NewToken(r, now)
                   /\ result' = [result EXCEPT ![t] = BearerFields(NewToken(r, now), config_)]
                   /\ pc' = [pc EXCEPT ![t] = "done"]
                   /\ mutex_' = [mutex_ EXCEPT !.writer = NoThread]
              ELSE /\ result' = [result EXCEPT ![t] =
                         AuthError(IF r.kind = "missing" THEN "missing" ELSE "parse", 0, "")]
                   /\ pc' = [pc EXCEPT ![t] = "done"]
                   /\ mutex_' = [mutex_ EXCEPT !.writer = NoThread]
                   /\ UNCHANGED token_
       ELSE IF GiveUp(r.status, attempt[t], config_)
              THEN /\ result' = [result EXCEPT ![t] = AuthError("status", r.status, r.text)]
                   /\ pc' = [pc EXCEPT ![t] = "done"]
                   /\ mutex_' = [mutex_ EXCEPT !.writer = NoThread]
                   /\ UNCHANGED token_
              ELSE /\ pc' = [pc EXCEPT ![t] = "sleep"]
                   /\ UNCHANGED <<result, mutex_, token_>>
  /\ UNCHANGED <<config_, now, attempt, reqs>>
  /\ UNCHANGED notOAuth

\* fetch_token: sleep_for(delay) is over; attempt++
Sleep(t) ==
  /\ pc[t] = "sleep"
  /\ attempt' = [attempt EXCEPT ![t] = @ + 1]
  /\ pc' = [pc EXCEPT ![t] = "post"]
  /\ UNCHANGED <<config_, token_, mutex_, now, response, reqs, result>>
  /\ UNCHANGED notOAuth

\* invalidate_token: lock, token_ = OAuthToken{}, unlock
Invalidate(t) ==
  /\ pc[t] \in {"idle", "done"}
  /\ ExclusiveFree(mutex_)
  /\ token_' = InvalidatedToken(token_)
  /\ attempt' = [attempt EXCEPT ![t] = 0]
  /\ response' = [response EXCEPT ![t] = NoReply]
  /\ reqs' = [reqs EXCEPT ![t] = 0]
  /\ result' = [result EXCEPT ![t] = VoidResult]
  /\ pc' = [pc EXCEPT ![t] = "done"]
  /\ UNCHANGED <<config_, mutex_, now>>
  /\ UNCHANGED notOAuth

\* time passes
Tick ==
  /\ now < MaxClock
  /\ now' = now + 1
  /\ UNCHANGED <<config_, token_, mutex_, pc, attempt, response, reqs, result>>
  /\ UNCHANGED notOAuth

\* ---------------------------------------------------------- specifications
vars == <<config_, token_, mutex_, now, pc, attempt, response, reqs, result, probe,
          bk, store, latestVersionCache, latestWithMetadataCache, cpc, ckey, creq,
          cresp, cres, cleared, otherVars>>

\* One caller, every reply the endpoint can give, every threshold.
FetchInit ==
  /\ OAuthInit
  /\ config_ \in [token_refresh_threshold : 0 .. ThDen, max_retries : 0 .. MaxRetriesCfg,
                  logical_cluster : {"lsrc-1"}, identity_pool_id : {"pool-1"}]

Init == OAuthInit /\ config_ \in Configs

Next ==
  \/ \E t \in Threads :
       \/ Call(t)
       \/ CallAgain(t)
       \/ ReadCheck(t)
       \/ WriteCheck(t)
       \/ SendRequest(t)
       \/ \E r \in CoreReplies : ReceiveResponse(t, r)
       \/ Sleep(t)
       \/ Invalidate(t)
  \/ Tick

\* any number of callers, get_bearer_fields and invalidate_token
Spec == Init /\ [][Next]_vars

\* all NThreads callers are inside get_bearer_fields, each holding the shared lock,
\* and the stored token is absent: none of them can pass the first check
HerdInit ==
  /\ bk = NoBk
  /\ ClientInit
  /\ OthersInit
  /\ config_ \in Configs
  /\ token_ = EmptyToken
  /\ mutex_ = [writer |-> NoThread, readers |-> Threads]
  /\ now = 0
  /\ pc = [t \in Threads |-> "rcheck"]
  /\ attempt = [t \in Threads |-> 0]
  /\ response = [t \in Threads |-> NoReply]
  /\ reqs = [t \in Threads |-> 0]
  /\ result = [t \in Threads |-> NoResult]
  /\ probe = NoProbe

NextHerd ==
  \/ \E t \in Threads :
       \/ ReadCheck(t)
       \/ WriteCheck(t)
       \/ SendRequest(t)
       \/ \E r \in TokenReplies : ReceiveResponse(t, r)
  \/ Tick

\* NThreads concurrent get_bearer_fields calls against an absent token; the
\* endpoint answers every request with a well-formed 2xx token response
SpecHerd == HerdInit /\ [][NextHerd]_vars

NextFetch ==
  \/ Call(1)
  \/ CallAgain(1)
  \/ ReadCheck(1)
  \/ WriteCheck(1)
  \/ SendRequest(1)
  \/ \E r \in Replies : ReceiveResponse(1, r)
  \/ Sleep(1)
  \/ Invalidate(1)
  \/ Tick

\* a single caller against an endpoint that may answer anything
SpecFetch == FetchInit /\ [][NextFetch]_vars

\* ------------------------------------------------------------------ claims
RECURSIVE SumReqs(_)
SumReqs(S) ==
  IF S = {} THEN 0 ELSE LET t == CHOOSE x \in S : TRUE IN reqs[t] + SumReqs(S \ {t})

\* HTTP requests the token endpoint received from all current calls together
TotalReqs == SumReqs(Threads)

HerdDone == \A t \in Threads : pc[t] = "done"

HerdSameToken ==
  \A t, u \in Threads :
    result[t].kind = "ok" /\ result[t].access_token = result[u].access_token

\* ticks for which a token of lifetime e stays unexpired under threshold th
FreshTicks(e, th) == (e - Trunc(e * (ThDen - th), ThDen)) * TicksPerSec

\* every caller has returned while the fetched token would still be unexpired
\* even had it been fetched at the very start of the calls (tick 0)
HerdInTime ==
  \A t \in Threads :
    reqs[t] > 0 => now <= FreshTicks(response[t].expires_in, config_.token_refresh_threshold)

\* C1 as stated: N concurrent get_bearer_fields calls against an absent token,
\* every reply a 2xx token response: exactly one token request is made in total
\* and all N callers return the same access_token.
C1_Original == HerdDone => (TotalReqs = 1 /\ HerdSameToken)

\* C1 amended: the same conclusion, provided all callers have returned within the
\* time the fetched token stays unexpired under token_refresh_threshold
\* (expires_in - trunc((1 - threshold) * expires_in) seconds from the start of the
\* calls); a caller whose re-check comes later fetches again.
C1_OneFetchInTime == (HerdDone /\ HerdInTime) => (TotalReqs = 1 /\ HerdSameToken)

C1_Witness == HerdDone /\ HerdInTime /\ TotalReqs = 1 /\ HerdSameToken /\ now > 0

InFetch(t) == pc[t] \in {"post", "http", "sleep"}

\* C2: in every reachable state at most one thread is inside fetch_token.
C2_AtMostOneFetch == Cardinality({t \in Threads : InFetch(t)}) <= 1

C2_Witness == \E t, u \in Threads : t # u /\ pc[t] = "http" /\ pc[u] = "wlock"

C3_Usable ==
  token_.access_token # "" /\ ~is_expired(token_, config_.token_refresh_threshold, now)

\* C3: a get_bearer_fields call that checks the stored token (under the shared or
\* the exclusive lock) while it is valid and not expired returns at that check,
\* with that token's access_token and the configured logical_cluster and
\* identity_pool_id, having issued no HTTP request, and leaves token_ unchanged.
C3_FastPath ==
  [][\A t \in Threads :
       (pc[t] \in {"rcheck", "wlock"} /\ pc'[t] # pc[t] /\ C3_Usable)
         => /\ pc'[t] = "done"
            /\ result'[t].kind = "ok"
            /\ result'[t].access_token = token_.access_token
            /\ result'[t].logical_cluster = config_.logical_cluster
            /\ result'[t].identity_pool_id = config_.identity_pool_id
            /\ reqs'[t] = 0
            /\ token_' = token_]_vars

C3_Witness ==
  \E t \in Threads :
    /\ pc[t] = "done" /\ result[t].kind = "ok" /\ reqs[t] = 0
    /\ result[t].access_token = token_.access_token
    /\ C3_Usable /\ now > 0

\* C4: when invalidate_token returns the stored token is empty; a
\* get_bearer_fields call that finds it empty does not return from either check
\* but enters fetch_token, whose first step issues an HTTP request.
C4_InvalidateForcesFetch ==
  [][\A t \in Threads :
       /\ (result'[t].kind = "void" /\ result'[t] # result[t])
            => (token_'.access_token = "" /\ token_'.expires_in_seconds = 0)
       /\ (token_.access_token = "" /\ pc[t] \in {"rcheck", "wlock"} /\ pc'[t] # pc[t])
            => (pc'[t] \in {"wlock", "post"} /\ result'[t].kind = "none")
       /\ (pc[t] = "post" /\ pc'[t] # "post")
            => (pc'[t] = "http" /\ reqs'[t] = reqs[t] + 1)]_vars

\* a token fetched at tick 0 (so not expired: the clock still reads 0 and the
\* threshold is positive) was invalidated, and another call is fetching again
C4_Witness ==
  /\ now = 0 /\ config_.token_refresh_threshold > 0 /\ token_.access_token = ""
  /\ \E t, v \in Threads :
       /\ pc[t] = "http"
       /\ result[v].kind = "ok" /\ reqs[v] > 0 /\ response[v].expires_in >= 1

\* C7 as stated: fetch_token issues at most max_retries + 1 requests, and when it
\* fails the error carries the status and the body of the last response.
C7_Original ==
  /\ reqs[1] <= config_.max_retries + 1
  /\ (pc[1] = "done" /\ result[1].kind = "error")
       => /\ result[1].what = "status"
          /\ result[1].status = response[1].status
          /\ result[1].text = response[1].text

\* C7 amended: at most max_retries + 1 requests (attempt never exceeds
\* max_retries); a call that made requests ends with the token of the last reply
\* or with an error; the error carries the status and body of the last response
\* when that response was not 2xx, and the parse failure (no status, no body)
\* when it was a 2xx response whose body could not be parsed.
C7_BoundedFetch ==
  /\ reqs[1] <= config_.max_retries + 1
  /\ attempt[1] <= config_.max_retries
  /\ (pc[1] = "done" /\ reqs[1] > 0) => result[1].kind \in {"ok", "error"}
  /\ (pc[1] = "done" /\ result[1].kind = "ok" /\ reqs[1] > 0)
       => (Is2xx(response[1].status) /\ result[1].access_token = response[1].access_token)
  /\ (pc[1] = "done" /\ result[1].kind = "error")
       => \/ /\ ~Is2xx(response[1].status)
             /\ result[1].what = "status"
             /\ result[1].status = response[1].status
             /\ result[1].text = response[1].text
          \/ /\ Is2xx(response[1].status)
             /\ result[1].what \in {"parse", "missing"}

C7_Witness ==
  /\ pc[1] = "done" /\ result[1].kind = "error" /\ result[1].what = "status"
  /\ config_.max_retries >= 1 /\ reqs[1] = config_.max_retries + 1
  /\ result[1].status = 503

\* ------------------------------------------- OAuthToken, used on its own
\* the values an OAuthToken's public fields can be given
TokenValues ==
  [access_token : {"", "tokA"}, expires_at : 0 .. MaxClock,
   expires_in_seconds : -1 .. MaxExpiresIn]

\* a successful fetch creates token_ at the current instant
TokCreate(r) ==
  /\ token_' = NewToken(r, now)
  /\ probe' = [NoProbe EXCEPT !.born = now]
  /\ UNCHANGED <<config_, now>>
  /\ UNCHANGED notToken

\* the fields are assigned directly (OAuthToken is a plain struct)
TokSet(tok) ==
  /\ token_' = tok
  /\ probe' = NoProbe
  /\ UNCHANGED <<config_, now>>
  /\ UNCHANGED notToken

\* token_.is_expired(th / ThDen) is called; inside, now() reads the clock
TokProbe(th) ==
  /\ probe' = [probe EXCEPT !.done = TRUE, !.at = now, !.th = th,
                            !.expired = is_expired(token_, th, now)]
  /\ UNCHANGED <<config_, token_, now>>
  /\ UNCHANGED notToken

\* the configuration of the provider where the provider is not what is exercised
OneConfig ==
  [token_refresh_threshold |-> ThDen, max_retries |-> 0,
   logical_cluster |-> "lsrc-1", identity_pool_id |-> "pool-1"]

TokInit ==
  /\ OAuthInit
  /\ config_ = OneConfig

NextToken ==
  \/ \E r \in TokenReplies : TokCreate(r)
  \/ \E tok \in TokenValues : TokSet(tok)
  \/ \E th \in 0 .. ThDen : TokProbe(th)
  \/ Tick

\* an OAuthToken that is created, assigned and asked is_expired as time passes
SpecToken == TokInit /\ [][NextToken]_vars

\* the last is_expired call was made on a token a fetch created with
\* expires_in_seconds > 0
ProbedCreated ==
  /\ probe.done /\ probe.born >= 0
  /\ is_valid(token_) /\ token_.expires_in_seconds > 0

\* C5 as stated: for every threshold in [0,1], is_expired is false right after the
\* token was created by a fetch with expires_in_seconds > 0 (at the creation
\* instant or the clock's next reading), and true for a token with empty
\* access_token.
C5_Original ==
  probe.done =>
    /\ (ProbedCreated /\ probe.at - probe.born <= 1) => ~probe.expired
    /\ token_.access_token = "" => probe.expired

\* C5 amended: for a token created by a fetch with expires_in_seconds > 0,
\* is_expired is false for at least a full second after creation when the
\* threshold is positive, and at the creation instant itself for every threshold;
\* with threshold 0 it is true as soon as the clock has moved.  It is true for
\* every token with empty access_token.
C5_FreshUnlessThresholdZero ==
  probe.done =>
    /\ (ProbedCreated /\ probe.th > 0 /\ probe.at - probe.born <= TicksPerSec)
         => ~probe.expired
    /\ (ProbedCreated /\ probe.at = probe.born) => ~probe.expired
    /\ (ProbedCreated /\ probe.th = 0 /\ probe.at > probe.born) => probe.expired
    /\ token_.access_token = "" => probe.expired

C5_Witness ==
  /\ ProbedCreated /\ probe.th > 0 /\ probe.th < ThDen
  /\ probe.at = probe.born + TicksPerSec /\ ~probe.expired

\* b is the rational n / d truncated toward zero
IsTruncOf(b, n, d) ==
  IF n >= 0 THEN b * d <= n /\ n < (b + 1) * d
  ELSE (b - 1) * d < n /\ n <= b * d

Magnitude(n) == IF n < 0 THEN -n ELSE n

\* C6 as stated: for a token with non-empty access_token, is_expired(threshold)
\* is true exactly when now >= expires_at - (1 - threshold) * expires_in_seconds
\* (both sides in ticks, times ThDen).
C6_Original ==
  (probe.done /\ is_valid(token_)) =>
    (probe.expired <=>
       probe.at * ThDen >=
         token_.expires_at * ThDen
           - (ThDen - probe.th) * token_.expires_in_seconds * TicksPerSec)

\* C6 amended: for a token with non-empty access_token, is_expired(threshold) is
\* true exactly when now > expires_at - B seconds, where B is
\* (1 - threshold) * expires_in_seconds truncated toward zero to whole seconds:
\* the boundary instant itself does not count as expired.
C6_StrictlyAfterBuffer ==
  (probe.done /\ is_valid(token_)) =>
    \E B \in -Magnitude(token_.expires_in_seconds) .. Magnitude(token_.expires_in_seconds) :
      /\ IsTruncOf(B, token_.expires_in_seconds * (ThDen - probe.th), ThDen)
      /\ probe.expired <=> (probe.at > token_.expires_at - B * TicksPerSec)

\* an is_expired call at the boundary instant itself, which answered false
C6_Witness ==
  /\ probe.done /\ is_valid(token_) /\ token_.expires_in_seconds > 0
  /\ probe.at * ThDen =
       token_.expires_at * ThDen
         - (ThDen - probe.th) * token_.expires_in_seconds * TicksPerSec
  /\ ~probe.expired

\* ------------------------------------------------------- backoff utilities
RECURSIVE Pow2(_)
Pow2(n) == IF n = 0 THEN 1 ELSE 2 * Pow2(n - 1)

\* std::numeric_limits<std::uint32_t>::max(), for a word of Width bits
UInt32Max == Pow2(Width) - 1

Min(a, b) == IF a < b THEN a ELSE b

\* UINT32_MAX / initial_backoff_ms.  Division by zero is undefined behaviour:
\* the build may trap (SIGFPE on x86), or carry on with a quotient of 0 (ARM)
\* or of anything else; the extremes are kept.
DivUInt32Max(initial_backoff_ms) ==
  IF initial_backoff_ms = 0
    THEN {[fault |-> TRUE, q |-> 0], [fault |-> FALSE, q |-> 0],
          [fault |-> FALSE, q |-> UInt32Max]}
    ELSE {[fault |-> FALSE, q |-> UInt32Max \div initial_backoff_ms]}

\* backoff_ms before jitter; dv is the outcome of the division, which the
\* short-circuit || evaluates only when retry_attempt < Width
backoff_ms(initial_backoff_ms, retry_attempt, max_backoff, dv) ==
  IF retry_attempt >= Width \/ Pow2(retry_attempt) > dv.q
    THEN max_backoff
    ELSE Min(Pow2(retry_attempt) * initial_backoff_ms, max_backoff)

\* static_cast<long>(backoff_ms * jitter), jitter = j / JDen in [0, 1)
Jittered(ms, j) == (ms * j) \div JDen

\* the arguments a caller can pass; max_backoff.count() is kept non-negative
BkInputs ==
  {[NoBk EXCEPT !.status_code = s] : s \in -1 .. MaxStatus}
    \cup
  {[NoBk EXCEPT !.initial_backoff_ms = i, !.retry_attempt = a, !.max_backoff = m] :
     i \in 0 .. UInt32Max, a \in 0 .. Width + 1, m \in 0 .. UInt32Max + 1}

\* utils::isRetriable(bk.status_code)
IsRetriableCall ==
  /\ bk.fn = "none"
  /\ bk' = [bk EXCEPT !.fn = "isRetriable", !.retriable = isRetriable(bk.status_code)]
  /\ UNCHANGED notBackoff

\* utils::calculateExponentialBackoff(bk.initial_backoff_ms, bk.retry_attempt,
\* bk.max_backoff)
CalculateExponentialBackoff ==
  /\ bk.fn = "none"
  /\ \E j \in 0 .. JDen - 1 :
       \E dv \in (IF bk.retry_attempt >= Width
                    THEN {[fault |-> FALSE, q |-> 0]}
                    ELSE DivUInt32Max(bk.initial_backoff_ms)) :
         bk' = IF dv.fault
                 THEN [bk EXCEPT !.fn = "backoff", !.jitter = j, !.fault = TRUE]
                 ELSE [bk EXCEPT !.fn = "backoff", !.jitter = j,
                         !.delay = Jittered(backoff_ms(bk.initial_backoff_ms,
                                      bk.retry_attempt, bk.max_backoff, dv), j)]
  /\ UNCHANGED notBackoff

BackoffInit ==
  /\ ProviderInit
  /\ config_ = OneConfig
  /\ ClientInit
  /\ OthersInit
  /\ bk \in BkInputs

NextBackoff == IsRetriableCall \/ CalculateExponentialBackoff

\* the two utilities applied to every argument in range
SpecBackoff == BackoffInit /\ [][NextBackoff]_vars

C9_Original ==
  bk.fn = "backoff" =>
    /\ ~bk.fault
    /\ 0 <= bk.delay /\ bk.delay <= bk.max_backoff

\* ---------------------------------------- SchemaStore and the TTL cache
\* an entry of one view of the store: "byId" maps (subject, id) to a schema,
\* "bySchema" maps (subject, schema) and "byVersion" maps (subject, version)
\* to a registered schema
StoreEntry(view, subject, id, version, schema) ==
  [view |-> view, subject |-> subject, id |-> id, guid |-> "", version |-> version,
   schema |-> schema]

\* an entry of the view that maps a guid to a schema
GuidEntry(guid, schema) == [StoreEntry("byGuid", "", 0, 0, schema) EXCEPT !.guid = guid]

\* e and f are entries of one view under one key
SameKey(e, f) ==
  /\ e.view = f.view
  /\ e.subject = f.subject
  /\ e.view = "byId" => e.id = f.id
  /\ e.view = "bySchema" => e.schema = f.schema
  /\ e.view = "byVersion" => e.version = f.version
  /\ e.view = "byGuid" => e.guid = f.guid

\* a map assignment: the entry replaces the one its key had
StorePut(st, e) == {f \in st : ~SameKey(e, f)} \cup {e}

StoreGet(st, e) == {f \in st : SameKey(e, f)}

\* store->getSchemaById(subject, id)
StoreGetSchemaById(st, subject, id) ==
  StoreGet(st, StoreEntry("byId", subject, id, 0, ""))

\* store->getSchemaById(subject, id).has_value()
StoreHasSchemaById(st, subject, id) == StoreGetSchemaById(st, subject, id) # {}

\* store->getSchemaByGuid(guid)
StoreGetSchemaByGuid(st, guid) == StoreGet(st, GuidEntry(guid, ""))

\* store->getRegisteredBySchema(subject, schema)
StoreGetRegisteredBySchema(st, subject, schema) ==
  StoreGet(st, StoreEntry("bySchema", subject, 0, 0, schema))

\* store->getRegisteredByVersion(subject, version)
StoreGetRegisteredByVersion(st, subject, version) ==
  StoreGet(st, StoreEntry("byVersion", subject, 0, version, ""))

\* the value of the entry a get found
StoreValue(found) ==
  LET e == CHOOSE f \in found : TRUE
  IN  IF e.view \in {"byId", "byGuid"}
        THEN RegisteredSchema(0, 0, e.schema)
        ELSE RegisteredSchema(e.id, e.version, e.schema)

StoreSetSchema_idOnly(st, subject, id, guid, schema) ==
  StorePut(StorePut(st, [StoreEntry("byId", subject, id, 0, schema) EXCEPT !.guid = guid]),
           StoreEntry("bySchema", subject, id, 0, schema))

\* store->setSchema(subject, id, guid, schema): every view the arguments give
\* a key of, in one call: the (subject, id) view when there is an id (0: none),
\* the guid view when there is a guid ("": none), the (subject, schema) view
StoreSetSchema(st, subject, id, guid, schema) ==
  LET byId == IF id # 0
                THEN StorePut(st, [StoreEntry("byId", subject, id, 0, schema)
                                     EXCEPT !.guid = guid])
                ELSE st
      byGuid == IF guid # "" THEN StorePut(byId, GuidEntry(guid, schema)) ELSE byId
  IN  StorePut(byGuid, StoreEntry("bySchema", subject, id, 0, schema))

\* store->setRegisteredSchema(schema, rs): the (subject, schema) view under the
\* schema given, the (subject, version) view under rs's version
StoreSetRegisteredSchema(st, subject, schema, rs) ==
  StorePut(StorePut(st, StoreEntry("bySchema", subject, rs.id, rs.version, schema)),
           StoreEntry("byVersion", subject, rs.id, rs.version, rs.schema))

\* cache.get(key).has_value() at instant t: present and not older than the ttl
CacheHas(cache, key, t) ==
  cache[key].present /\ t - cache[key].inserted_at <= LatestTtlTicks

\* what cache.get(key) leaves behind: an expired entry is purged on access
CacheAfterGet(cache, key, t) ==
  IF cache[key].present /\ ~CacheHas(cache, key, t)
    THEN [cache EXCEPT ![key] = NoEntry]
    ELSE cache

\* cache.put(key, value) at instant t
CachePut(cache, key, value, t) ==
  [cache EXCEPT ![key] = [present |-> TRUE, inserted_at |-> t, value |-> value]]

\* cache.clear()
CacheClear(cache) == [key \in DOMAIN cache |-> NoEntry]

\* what cache.get(key) answers at instant t, for every key
CacheView(cache, t) ==
  [key \in DOMAIN cache |-> IF CacheHas(cache, key, t) THEN cache[key].value ELSE NoValue]

\* --------------------------------------------------- SchemaRegistryClient
\* what restClient->sendRequestUrls can give back: a status, whether the body
\* parses as what the operation expects, and what a parsed body carries
\* (schema "": the response has no schema)
RegistryReply(status, parsable, id, version, schema) ==
  [status |-> status, parsable |-> parsable, id |-> id,
   guid |-> IF parsable THEN "g1" ELSE "", version |-> version, schema |-> schema]

RegistryReplies ==
  {RegistryReply(200, TRUE, id, version, schema) :
     id \in Ids, version \in Versions, schema \in Schemas \cup {""}}
  \cup {RegistryReply(status, FALSE, 0, 0, "") : status \in {200, 0, 302, 404, 500}}

\* the replies of a registry that holds one registration and echoes it
CoreRegistryReplies ==
  {r \in RegistryReplies : r.parsable => r.schema = "A"}

\* what a call was made with: the operation, the arguments its cache check
\* looks at, and deleted and format, which only shape the request
Key(op, subject, id, version, schema) ==
  [op |-> op, subject |-> subject, id |-> id, guid |-> "", version |-> version,
   schema |-> schema, deleted |-> FALSE, format |-> ""]

ByIdKey(subject, id) == Key("getBySubjectAndId", subject, id, 0, "")

GuidKey(guid) == [Key("getByGuid", "", 0, 0, "") EXCEPT !.guid = guid]

LatestKey(subject) == Key("getLatestVersion", subject, 0, 0, "")

CHit(value) == [kind |-> "hit", status |-> 0, value |-> value]

CFetched(value) == [kind |-> "fetched", status |-> 0, value |-> value]

CVoid == [kind |-> "void", status |-> 0, value |-> NoValue]

\* RestException: with the status for a status error, without for a parse error
RestException(status) == [kind |-> "error", status |-> status, value |-> NoValue]

\* an exception of the JSON library, as json::parse and from_json throw it
JsonException == [kind |-> "json_error", status |-> 0, value |-> NoValue]

\* sendHttpRequest throws on status >= 400
IsHttpError_5xx(r) == r.status >= 500
IsHttpError(r) == r.status >= 400

\* how an operation reads the body sendHttpRequest returned: inside a try
\* that rethrows a RestException, outside any try, or not at all
ParseKind(op) ==
  CASE op \in {"getAssociationsByResourceName", "createAssociation"} -> "raw"
    [] op = "deleteAssociations" -> "none"
    [] OTHER -> "wrapped"

\* a call of thread t begins; k is what it was called with, hit and value
\* what its cache check found
BeginCall(t, k, hit, value) ==
  /\ cpc[t] \in {"idle", "done"}
  /\ ckey' = [ckey EXCEPT ![t] = k]
  /\ creq' = [creq EXCEPT ![t] = 0]
  /\ cresp' = [cresp EXCEPT ![t] = NoCResp]
  /\ IF hit
       THEN /\ cres' = [cres EXCEPT ![t] = CHit(value)]
            /\ cpc' = [cpc EXCEPT ![t] = "done"]
       ELSE /\ cres' = [cres EXCEPT ![t] = NoCRes]
            /\ cpc' = [cpc EXCEPT ![t] = "miss"]
  /\ UNCHANGED cleared

BeginStoreCall_miss(t, k, found) == BeginCall(t, k, FALSE, NoValue)

\* a cache check against the store, under storeMutex
BeginStoreCall(t, k, found) ==
  BeginCall(t, k, found # {}, IF found # {} THEN StoreValue(found) ELSE NoValue)

\* the store and the two latest-version caches
cached == <<store, latestVersionCache, latestWithMetadataCache>>

\* an operation that checks no cache
BeginUncachedCall(t, k) == BeginStoreCall(t, k, {})

\* registerSchema, "Check cache first"
RegisterSchema(t, subject, schema) ==
  /\ BeginStoreCall(t, Key("registerSchema", subject, 0, 0, schema),
                    StoreGetRegisteredBySchema(store, subject, schema))
  /\ UNCHANGED cached
  /\ UNCHANGED notClient

\* getBySubjectAndId, "Check cache first": the block under storeMutex
GetBySubjectAndId(t, subject, id) ==
  /\ BeginStoreCall(t, ByIdKey(subject, id), StoreGetSchemaById(store, subject, id))
  /\ UNCHANGED cached
  /\ UNCHANGED notClient

\* getByGuid, "Check cache first"
GetByGuid(t, guid) ==
  /\ BeginStoreCall(t, GuidKey(guid), StoreGetSchemaByGuid(store, guid))
  /\ UNCHANGED cached
  /\ UNCHANGED notClient

\* getBySchema, "Check cache first"
GetBySchema(t, subject, schema) ==
  /\ BeginStoreCall(t, Key("getBySchema", subject, 0, 0, schema),
                    StoreGetRegisteredBySchema(store, subject, schema))
  /\ UNCHANGED cached
  /\ UNCHANGED notClient

\* getVersion, "Check cache first"
GetVersion(t, subject, version) ==
  /\ BeginStoreCall(t, Key("getVersion", subject, 0, version, ""),
                    StoreGetRegisteredByVersion(store, subject, version))
  /\ UNCHANGED cached
  /\ UNCHANGED notClient

\* getLatestVersion, "Check cache first": latestVersionCache.get(subject)
GetLatestVersion(t, subject) ==
  /\ BeginCall(t, LatestKey(subject), CacheHas(latestVersionCache, subject, now),
               CacheView(latestVersionCache, now)[subject])
  /\ latestVersionCache' = CacheAfterGet(latestVersionCache, subject, now)
  /\ UNCHANGED <<store, latestWithMetadataCache>>
  /\ UNCHANGED notClient

\* getLatestWithMetadata, "Check cache first": latestWithMetadataCache.get(cacheKey)
GetLatestWithMetadata(t, subject) ==
  /\ BeginCall(t, Key("getLatestWithMetadata", subject, 0, 0, ""),
               CacheHas(latestWithMetadataCache, subject, now),
               CacheView(latestWithMetadataCache, now)[subject])
  /\ latestWithMetadataCache' = CacheAfterGet(latestWithMetadataCache, subject, now)
  /\ UNCHANGED <<store, latestVersionCache>>
  /\ UNCHANGED notClient

GetAllVersions(t, subject) ==
  /\ BeginUncachedCall(t, Key("getAllVersions", subject, 0, 0, ""))
  /\ UNCHANGED cached
  /\ UNCHANGED notClient

DeleteSubject(t, subject) ==
  /\ BeginUncachedCall(t, Key("deleteSubject", subject, 0, 0, ""))
  /\ UNCHANGED cached
  /\ UNCHANGED notClient

DeleteSubjectVersion(t, subject, version) ==
  /\ BeginUncachedCall(t, Key("deleteSubjectVersion", subject, 0, version, ""))
  /\ UNCHANGED cached
  /\ UNCHANGED notClient

GetAssociationsByResourceName(t) ==
  /\ BeginUncachedCall(t, Key("getAssociationsByResourceName", "", 0, 0, ""))
  /\ UNCHANGED cached
  /\ UNCHANGED notClient

CreateAssociation(t) ==
  /\ BeginUncachedCall(t, Key("createAssociation", "", 0, 0, ""))
  /\ UNCHANGED cached
  /\ UNCHANGED notClient

DeleteAssociations(t) ==
  /\ BeginUncachedCall(t, Key("deleteAssociations", "", 0, 0, ""))
  /\ UNCHANGED cached
  /\ UNCHANGED notClient

\* sendHttpRequest: restClient->sendRequestUrls is called; no lock is held
SendHttpRequest(t) ==
  /\ cpc[t] = "miss"
  /\ cpc' = [cpc EXCEPT ![t] = "http"]
  /\ creq' = [creq EXCEPT ![t] = @ + 1]
  /\ UNCHANGED <<store, latestVersionCache, latestWithMetadataCache, ckey, cresp, cres,
                 cleared>>
  /\ UNCHANGED notClient

\* the RegisteredSchema a parsed body gives
Response(r) == RegisteredSchema(r.id, r.version, r.schema)

\* what a successful call returns
Returned(k, r) ==
  CASE k.op \in {"getBySubjectAndId", "getByGuid"} -> RegisteredSchema(0, 0, r.schema)
    [] k.op \in {"registerSchema", "getBySchema", "getVersion", "getLatestVersion",
                 "getLatestWithMetadata"} -> Response(r)
    [] OTHER -> NoValue

\* registerSchema's schemaKey: the response's schema, the input schema if the
\* response has none
schemaKey(schema, r) == IF r.schema # "" THEN r.schema ELSE schema

StoreAfterFetch_skipped(st, k, r) == st

\* "Update cache": what each operation writes to the store under storeMutex
StoreAfterFetch(st, k, r) ==
  CASE k.op = "getBySubjectAndId" ->
         StoreSetSchema(st, k.subject, k.id, r.guid, r.schema)
    [] k.op = "getByGuid" -> StoreSetSchema(st, "", r.id, k.guid, r.schema)
    [] k.op = "registerSchema" ->
         StoreSetSchema(st, k.subject, r.id, r.guid, schemaKey(k.schema, r))
    [] k.op = "getBySchema" ->
         StoreSetRegisteredSchema(st, k.subject, k.schema,
                                  RegisteredSchema(r.id, r.version, k.schema))
    [] k.op = "getVersion" ->
         StoreSetRegisteredSchema(st, k.subject, r.schema, Response(r))
    [] OTHER -> st

LatestAfterFetch_skipped(cache, k, r, t) == cache

LatestAfterFetch_invalidating(cache, k, r, t) ==
  IF k.op = "getLatestVersion" THEN CachePut(cache, k.subject, Response(r), t)
  ELSE IF k.op \in {"deleteSubject", "deleteSubjectVersion"}
    THEN [cache EXCEPT ![k.subject] = NoEntry]
  ELSE cache

\* getLatestVersion, "Update cache": latestVersionCache.put(subject, response)
LatestAfterFetch(cache, k, r, t) ==
  IF k.op = "getLatestVersion" THEN CachePut(cache, k.subject, Response(r), t) ELSE cache

\* getLatestWithMetadata, "Update cache": latestWithMetadataCache.put(cacheKey, response)
LatestWithMetadataAfterFetch(cache, k, r, t) ==
  IF k.op = "getLatestWithMetadata"
    THEN CachePut(cache, k.subject, Response(r), t)
    ELSE cache

\* what the call throws or returns once sendHttpRequest got r
Outcome(k, r) ==
  IF IsHttpError(r) THEN RestException(r.status)
  ELSE IF ParseKind(k.op) = "none" THEN CVoid
  ELSE IF r.parsable THEN CFetched(Returned(k, r))
  ELSE IF ParseKind(k.op) = "raw" THEN JsonException
  ELSE RestException(0)

\* the request returns r: sendHttpRequest's status check, the parse, and on
\* success the write-through and the return
ReceiveHttp(t, r) ==
  /\ cpc[t] = "http"
  /\ cpc' = [cpc EXCEPT ![t] = "done"]
  /\ cresp' = [cresp EXCEPT ![t] = Checked(r.status, r.parsable, r.id, r.guid)]
  /\ cres' = [cres EXCEPT ![t] = Outcome(ckey[t], r)]
  /\ IF Outcome(ckey[t], r).kind = "fetched"
       THEN /\ store' = StoreAfterFetch(store, ckey[t], r)
            /\ latestVersionCache' = LatestAfterFetch(latestVersionCache, ckey[t], r, now)
            /\ latestWithMetadataCache' =
                 LatestWithMetadataAfterFetch(latestWithMetadataCache, ckey[t], r, now)
       ELSE UNCHANGED <<store, latestVersionCache, latestWithMetadataCache>>
  /\ cleared' = [cleared EXCEPT ![t] = FALSE]
  /\ UNCHANGED <<ckey, creq>>
  /\ UNCHANGED notClient

\* the calls of other threads whose request is out when t begins to clear
InFlight(t) == {u \in Threads \ {t} : cpc[u] = "http"}

\* clearCaches, first half: clearLatestCaches()
ClearLatestCaches(t) ==
  /\ cpc[t] \in {"idle", "done"}
  /\ latestVersionCache' = CacheClear(latestVersionCache)
  /\ latestWithMetadataCache' = CacheClear(latestWithMetadataCache)
  /\ cpc' = [cpc EXCEPT ![t] = "clearing"]
  /\ ckey' = [ckey EXCEPT ![t] = NoKey]
  /\ creq' = [creq EXCEPT ![t] = 0]
  /\ cresp' = [cresp EXCEPT ![t] = NoCResp]
  /\ cres' = [cres EXCEPT ![t] = NoCRes]
  /\ cleared' = [u \in Threads |-> cleared[u] \/ u \in InFlight(t)]
  /\ UNCHANGED store
  /\ UNCHANGED notClient

StoreClear_kept(st) == st

\* store->clear()
StoreClear(st) == {}

\* clearCaches, second half: store->clear() under storeMutex, and the return
ClearStore(t) ==
  /\ cpc[t] = "clearing"
  /\ store' = StoreClear(store)
  /\ cpc' = [cpc EXCEPT ![t] = "done"]
  /\ cres' = [cres EXCEPT ![t] = CVoid]
  /\ UNCHANGED <<latestVersionCache, latestWithMetadataCache, ckey, creq, cresp,
                 cleared>>
  /\ UNCHANGED notClient

RegistryInit == OAuthInit /\ config_ = OneConfig

NextClient ==
  \/ \E t \in Threads :
       \/ \E subject \in Subjects, id \in Ids : GetBySubjectAndId(t, subject, id)
       \/ \E subject \in Subjects : GetLatestVersion(t, subject)
       \/ SendHttpRequest(t)
       \/ \E r \in CoreRegistryReplies : ReceiveHttp(t, r)
       \/ ClearLatestCaches(t)
       \/ ClearStore(t)
  \/ Tick

\* any number of threads looking up and clearing on one SchemaRegistryClient
SpecClient == RegistryInit /\ [][NextClient]_vars

\* the caller of the single-caller specifications
Caller == 1

NextCalls ==
  \/ \E subject \in Subjects :
       \/ \E schema \in Schemas : RegisterSchema(Caller, subject, schema)
       \/ \E id \in Ids : GetBySubjectAndId(Caller, subject, id)
       \/ \E schema \in Schemas : GetBySchema(Caller, subject, schema)
       \/ \E version \in Versions : GetVersion(Caller, subject, version)
       \/ GetLatestVersion(Caller, subject)
       \/ GetLatestWithMetadata(Caller, subject)
       \/ GetAllVersions(Caller, subject)
       \/ DeleteSubject(Caller, subject)
       \/ \E version \in Versions : DeleteSubjectVersion(Caller, subject, version)
  \/ GetAssociationsByResourceName(Caller)
  \/ CreateAssociation(Caller)
  \/ DeleteAssociations(Caller)
  \/ SendHttpRequest(Caller)
  \/ \E r \in RegistryReplies : ReceiveHttp(Caller, r)
  \/ ClearLatestCaches(Caller)
  \/ ClearStore(Caller)

\* one caller, every operation, every reply the registry can give
SpecCalls == RegistryInit /\ [][NextCalls]_vars

\* the lookup key k is answered from the cache at instant t
Cached(k, st, cache, t) ==
  IF k.op = "getBySubjectAndId"
    THEN StoreHasSchemaById(st, k.subject, k.id)
    ELSE CacheHas(cache, k.subject, t)

\* C10 as stated, in its own words: a second caller that misses while the first
\* caller's request for the key is in flight does not issue its own request, so
\* no two requests for one key are ever in flight.
C10_Original ==
  \A t, u \in Threads :
    (t # u /\ cpc[t] = "http" /\ cpc[u] = "http") => ckey[t] # ckey[u]

\* C10 amended: a lookup issues at most one request, and only after its own
\* check missed the cache; a lookup whose check finds the key cached issues none;
\* a successful fetch writes the key through, and a store entry stays until
\* clearCaches.  (Lookups that both miss before either has written through each
\* issue their own request.)
C10_OneRequestPerMiss ==
  [][\A t \in Threads :
       /\ creq'[t] <= 1
       /\ creq'[t] > creq[t] => cpc[t] = "miss"
       /\ (cpc[t] \in {"idle", "done"} /\ cpc'[t] = "miss")
            => ~Cached(ckey'[t], store, latestVersionCache, now)
       /\ (cpc[t] = "http" /\ cres'[t].kind = "fetched")
            => Cached(ckey[t], store', latestVersionCache', now')
       /\ (store \ store' # {})
            => \E u \in Threads : cpc[u] = "clearing" /\ cpc'[u] = "done"]_vars

\* one thread fetched a key and another was then answered from the cache
C10_Witness ==
  \E t, u \in Threads :
    /\ t # u /\ ckey[t] = ckey[u] /\ ckey[t].op = "getBySubjectAndId"
    /\ cres[t].kind = "fetched" /\ creq[t] = 1
    /\ cres[u].kind = "hit" /\ creq[u] = 0

\* ------------------------------------- one caller and the latest-version caches
NextLatest ==
  \/ \E subject \in Subjects :
       \/ GetLatestVersion(Caller, subject)
       \/ GetLatestWithMetadata(Caller, subject)
       \/ \E schema \in Schemas : RegisterSchema(Caller, subject, schema)
       \/ DeleteSubject(Caller, subject)
       \/ \E version \in Versions : DeleteSubjectVersion(Caller, subject, version)
  \/ SendHttpRequest(Caller)
  \/ \E r \in RegistryReplies : ReceiveHttp(Caller, r)
  \/ ClearLatestCaches(Caller)
  \/ ClearStore(Caller)
  \/ Tick

\* one caller reading the latest version, registering and deleting while the
\* clock runs
SpecLatest == RegistryInit /\ [][NextLatest]_vars

\* the caller's call with key k returned, having fetched
Fetched(k) ==
  cpc[Caller] = "done" /\ ckey[Caller] = k /\ cres[Caller].kind = "fetched"

\* the caller, back from a call that fetched with key k, makes its next call,
\* with key k2
NextCallAfter(k, k2) ==
  Fetched(k) /\ ckey'[Caller] = k2 /\ <<cpc'[Caller], cres'[Caller]>> # <<cpc[Caller], cres[Caller]>>

\* C11: a getLatestVersion(subject) that went to the registry issued exactly
\* one request, and the getLatestVersion(subject) the caller makes next, with
\* no cache clear between and the entry not older than the ttl, issues none
\* and returns the value the first call returned.
C11_SecondCallFromCache ==
  [][\A subject \in Subjects :
       /\ Fetched(LatestKey(subject))' => creq'[Caller] = 1
       /\ (/\ NextCallAfter(LatestKey(subject), LatestKey(subject))
           /\ now - latestVersionCache[subject].inserted_at <= LatestTtlTicks)
            => /\ cpc'[Caller] = "done"
               /\ cres'[Caller] = CHit(cres[Caller].value)
               /\ creq'[Caller] = 0]_vars

\* the second call was answered from the cache, one tick or more after the
\* first call put the normalised schema there
C11_Witness ==
  \E subject \in Subjects :
    /\ cpc[Caller] = "done" /\ ckey[Caller] = LatestKey(subject)
    /\ cres[Caller] = CHit(latestVersionCache[subject].value)
    /\ cres[Caller].value.schema = "An"
    /\ creq[Caller] = 0
    /\ now > latestVersionCache[subject].inserted_at

\* ------------------------------------------- one caller and every operation
\* C12 as stated: after registerSchema(subject, schema) succeeds the store
\* holds a registered entry for (subject, schema), the one the cache checks of
\* getBySchema(subject, schema) and of registerSchema(subject, schema) look
\* up, so that both return it without a network call.
C12_Original ==
  \A subject \in Subjects, schema \in Schemas :
    Fetched(Key("registerSchema", subject, 0, 0, schema))
      => StoreGetRegisteredBySchema(store, subject, schema) # {}

\* the operations that check a cache before they go to the registry
Lookups ==
  {"getBySubjectAndId", "getBySchema", "getVersion", "getLatestVersion",
   "getLatestWithMetadata"}

\* the store is as it was, and each latest-version cache answers every key as
\* it did
CachedAsBefore ==
  /\ store' = store
  /\ CacheView(latestVersionCache', now) = CacheView(latestVersionCache, now)
  /\ CacheView(latestWithMetadataCache', now) = CacheView(latestWithMetadataCache, now)

\* C13: when the request of a lookup or of registerSchema is answered with a
\* status >= 400 or with a body that does not parse, the call throws a
\* RestException, which carries the status if the status was >= 400, and the
\* store and both latest-version caches hold what they held before the call:
\* neither the cache check, nor the send, nor the failed receive writes them.
C13_FailedFetchLeavesCaches ==
  [][/\ cpc'[Caller] \in {"miss", "http"} => CachedAsBefore
     /\ (/\ cpc[Caller] = "http" /\ cpc'[Caller] = "done"
         /\ ckey[Caller].op \in Lookups \cup {"registerSchema"}
         /\ (cresp'[Caller].status >= 400 \/ ~cresp'[Caller].parsable))
          => /\ cres'[Caller].kind = "error"
             /\ cresp'[Caller].status >= 400 => cres'[Caller].status = cresp'[Caller].status
             /\ CachedAsBefore]_vars

\* getVersion failed with 404 on a client whose store and latest-version cache
\* were filled by earlier calls
C13_Witness ==
  /\ cpc[Caller] = "done" /\ ckey[Caller].op = "getVersion"
  /\ cres[Caller] = RestException(404)
  /\ store # {}
  /\ \E subject \in Subjects : latestVersionCache[subject].present

\* C14 as stated: whatever the operation, when the reply's status is not 2xx,
\* or the operation reads the body and the body does not parse, the call
\* fails with a RestException; it neither returns normally nor throws another
\* kind of exception.
C14_Original ==
  (/\ cpc[Caller] = "done" /\ cresp[Caller] # NoCResp
   /\ \/ ~(cresp[Caller].status >= 200 /\ cresp[Caller].status < 300)
      \/ ParseKind(ckey[Caller].op) # "none" /\ ~cresp[Caller].parsable)
    => cres[Caller].kind = "error"

\* ------------------------------------------------ deletes and the caches
Deletes == {"deleteSubject", "deleteSubjectVersion"}

\* C15: deleteSubject and deleteSubjectVersion make no cache check and send
\* one request; no step of theirs changes the store or either latest-version
\* cache; so the getLatestVersion(subject) the caller makes after a successful
\* deleteSubject(subject), while the cached entry is within its ttl, returns
\* the cached registration and sends nothing.
C15_DeletesLeaveCaches ==
  [][/\ ckey'[Caller].op \in Deletes =>
          /\ cres'[Caller].kind # "hit"
          /\ cpc'[Caller] = "done" => creq'[Caller] = 1
          /\ UNCHANGED cached
     /\ \A subject \in Subjects :
          (/\ NextCallAfter(Key("deleteSubject", subject, 0, 0, ""), LatestKey(subject))
           /\ CacheHas(latestVersionCache, subject, now))
            => /\ cpc'[Caller] = "done"
               /\ cres'[Caller] = CHit(latestVersionCache[subject].value)
               /\ creq'[Caller] = 0]_vars

\* deleteSubject succeeded and the registration cached before it is still
\* served by the latest-version cache
C15_Witness ==
  \E subject \in Subjects :
    /\ Fetched(Key("deleteSubject", subject, 0, 0, ""))
    /\ creq[Caller] = 1
    /\ CacheHas(latestVersionCache, subject, now)
    /\ latestVersionCache[subject].value.schema = "A"
    /\ now > latestVersionCache[subject].inserted_at

\* ------------------------------------------------------ CustomOAuthProvider
\* what one invocation of the user's fetch_fn_ gives: a string, or an exception
FetchOutcome(kind, token) == [kind |-> kind, token |-> token]

FetchOutcomes ==
  {FetchOutcome("token", token) : token \in {"", "custom-token-1", "custom-token-2"}}
  \cup {FetchOutcome("throw", "")}

\* what the constructor is given besides fetch_fn: the two cloud fields,
\* "" by default
CloudFields == {"", "lsrc-123"} \X {"", "pool-456"}

\* notCustom: what a CustomOAuthProvider leaves alone
notCustom ==
  <<config_, token_, mutex_, now, pc, attempt, response, reqs, result, probe, bk,
    clientVars, staticProvider, factory, validated, deserialized, keyed, named>>

\* CustomOAuthProvider::CustomOAuthProvider: an empty fetch_fn is refused
NewCustomOAuthProvider(has_fn, logical_cluster, identity_pool_id) ==
  /\ custom = NoCustom
  /\ custom' =
       IF has_fn
         THEN [NoCustom EXCEPT !.made = TRUE, !.logical_cluster_ = logical_cluster,
                               !.identity_pool_id_ = identity_pool_id]
         ELSE [NoCustom EXCEPT !.error = "fetch_fn cannot be empty"]
  /\ UNCHANGED notCustom

\* what get_bearer_fields gives when its fetch_fn_() call gave out
CustomFields(c, out) ==
  IF out.kind = "throw" THEN AuthError("propagated", 0, "")
  ELSE IF out.token = "" THEN AuthError("empty", 0, "")
  ELSE BearerFields([access_token |-> out.token],
                    [logical_cluster |-> c.logical_cluster_,
                     identity_pool_id |-> c.identity_pool_id_])

\* a provider that keeps the last token it returned
get_bearer_fields_cached(c, out) ==
  IF c.returned # <<>> /\ c.returned[Len(c.returned)].kind = "ok"
    THEN [c EXCEPT !.returned = Append(@, c.returned[Len(c.returned)])]
    ELSE [c EXCEPT !.produced = Append(@, out), !.returned = Append(@, CustomFields(c, out))]

\* CustomOAuthProvider::get_bearer_fields: one fetch_fn_() call, then the
\* check and the return
get_bearer_fields(c, out) ==
  [c EXCEPT !.produced = Append(@, out), !.returned = Append(@, CustomFields(c, out))]

CustomGetBearerFields(out) ==
  /\ custom.made
  /\ Len(custom.returned) < MaxCalls
  /\ custom' = get_bearer_fields(custom, out)
  /\ UNCHANGED notCustom

NextCustom ==
  \/ \E has_fn \in BOOLEAN, f \in CloudFields : NewCustomOAuthProvider(has_fn, f[1], f[2])
  \/ \E out \in FetchOutcomes : CustomGetBearerFields(out)

SpecCustom == RegistryInit /\ [][NextCustom]_vars

\* C16: after n calls fetch_fn_ has been invoked n times, and the k-th call
\* gave what the k-th invocation gave: a call that returns, returns that
\* invocation's token with the constructor's logical_cluster and
\* identity_pool_id, never an earlier token; a call fails exactly when its
\* invocation gave the empty string or threw.
C16_EveryCallInvokes ==
  /\ Len(custom.produced) = Len(custom.returned)
  /\ \A k \in 1 .. Len(custom.returned) :
       LET out == custom.produced[k]
           got == custom.returned[k]
       IN  /\ got.kind = "ok" <=> (out.kind = "token" /\ out.token # "")
           /\ got.kind = "ok" =>
                /\ got.access_token = out.token
                /\ got.logical_cluster = custom.logical_cluster_
                /\ got.identity_pool_id = custom.identity_pool_id_
           /\ got.kind # "ok" => got.kind = "error"

\* two calls in a row returned two different tokens
C16_Witness ==
  /\ Len(custom.returned) = 2
  /\ custom.returned[1].kind = "ok" /\ custom.returned[1].access_token = "custom-token-1"
  /\ custom.returned[2].kind = "ok" /\ custom.returned[2].access_token = "custom-token-2"
  /\ custom.returned[2].logical_cluster = "lsrc-123"
  /\ custom.returned[2].identity_pool_id = "pool-456"

\* ------------------------------------------------------ StaticTokenProvider
StaticArgs ==
  [token : {"", "test-token", "token", "t"}, logical_cluster : {"", "lsrc-123", "lsrc-1"},
   identity_pool_id : {"", "pool-456", "pool-1"}]

notStatic ==
  <<config_, token_, mutex_, now, pc, attempt, response, reqs, result, probe, bk,
    clientVars, custom, factory, validated, deserialized, keyed, named>>

StaticError_tokenOnly(a) ==
  IF a.token = "" THEN "access_token cannot be empty" ELSE ""

\* the constructor's checks, in their order; "": nothing thrown
StaticError(a) ==
  IF a.token = "" THEN "access_token cannot be empty"
  ELSE IF a.logical_cluster = "" THEN "logical_cluster cannot be empty"
  ELSE IF a.identity_pool_id = "" THEN "identity_pool_id cannot be empty"
  ELSE ""

\* StaticTokenProvider::StaticTokenProvider
NewStaticTokenProvider(a) ==
  /\ staticProvider = NoStatic
  /\ staticProvider' =
       [NoStatic EXCEPT
          !.args = a,
          !.error = StaticError(a),
          !.made = (StaticError(a) = ""),
          !.fields_ = IF StaticError(a) = ""
                        THEN BearerFields([access_token |-> a.token],
                                          [logical_cluster |-> a.logical_cluster,
                                           identity_pool_id |-> a.identity_pool_id])
                        ELSE NoResult]
  /\ UNCHANGED notStatic

\* StaticTokenProvider::get_bearer_fields, called by thread t: return fields_
StaticGetBearerFields(t) ==
  /\ staticProvider.made
  /\ staticProvider.calls < MaxCalls
  /\ staticProvider' =
       [staticProvider EXCEPT !.got[t] = staticProvider.fields_, !.calls = @ + 1]
  /\ UNCHANGED notStatic

NextStatic ==
  \/ \E a \in StaticArgs : NewStaticTokenProvider(a)
  \/ \E t \in Threads : StaticGetBearerFields(t)

SpecStatic == RegistryInit /\ [][NextStatic]_vars

FactoryConfigs ==
  {[key \in FactoryKeys |-> IF key = SourceKey THEN source ELSE rest[key]] :
     source \in {Absent, Mapped(""), Mapped("STATIC_TOKEN"), Mapped("OAUTHBEARER"),
                 Mapped("INVALID_SOURCE")},
     rest \in [FactoryKeys \ {SourceKey} -> {Absent, Mapped(""), Mapped("v")}]}

notFactory ==
  <<config_, token_, mutex_, now, pc, attempt, response, reqs, result, probe, bk,
    clientVars, custom, staticProvider, validated, deserialized, keyed, named>>

FactoryError(what, key, value) == [what |-> what, key |-> key, value |-> value]

get_required_config_presentOnly(config, key) ==
  IF ~config[key].present THEN FactoryError("missing", key, "")
  ELSE FactoryError("", key, config[key].value)

\* get_required_config: the value, or the std::invalid_argument it throws
\* ("Missing required configuration key: " / "Configuration key cannot be empty: ")
get_required_config(config, key) ==
  IF ~config[key].present THEN FactoryError("missing", key, "")
  ELSE IF config[key].value = "" THEN FactoryError("empty", key, "")
  ELSE FactoryError("", key, config[key].value)

\* the get_required_config calls of a create_* function, one after the other:
\* what the first one that throws throws
RECURSIVE RequireAll(_, _)
RequireAll(config, keys) ==
  IF keys = <<>> THEN NoFactoryError
  ELSE IF get_required_config(config, Head(keys)).what # ""
    THEN get_required_config(config, Head(keys))
  ELSE RequireAll(config, Tail(keys))

\* create_static_token_provider and create_oauth_provider: the provider made
\* once every key was read (the constructors' own checks pass on non-empty
\* strings and default numbers)
create_provider(config, keys, class) ==
  IF RequireAll(config, keys).what # ""
    THEN [provider |-> "none", error |-> RequireAll(config, keys)]
    ELSE [provider |-> class, error |-> NoFactoryError]

\* OAuthProviderFactory::create
create(config) ==
  LET source == get_required_config(config, SourceKey)
  IN  IF source.what # "" THEN [provider |-> "none", error |-> source]
      ELSE IF source.value = "STATIC_TOKEN"
        THEN create_provider(config, StaticKeys, "StaticTokenProvider")
      ELSE IF source.value = "OAUTHBEARER"
        THEN create_provider(config, OAuthKeys, "OAuthClientProvider")
      ELSE [provider |-> "none",
            error |-> FactoryError("invalid source", SourceKey, source.value)]

Create(config) ==
  /\ ~factory.called
  /\ factory' = [called |-> TRUE, config |-> config, provider |-> create(config).provider,
                  error |-> create(config).error]
  /\ UNCHANGED notFactory

NextFactory == \E config \in FactoryConfigs : Create(config)

SpecFactory == RegistryInit /\ [][NextFactory]_vars

\* the key is absent from the map or mapped to the empty string
Lacking(config, key) == ~config[key].present \/ config[key].value = ""

\* the keys of the chosen source in the order the claim gives them: the source
\* key, the keys of the mode, logical cluster and identity pool id
RequiredKeys(config) ==
  <<SourceKey>> \o
    (IF Lacking(config, SourceKey) THEN <<>>
     ELSE IF config[SourceKey].value = "STATIC_TOKEN" THEN StaticKeys
     ELSE IF config[SourceKey].value = "OAUTHBEARER" THEN OAuthKeys
     ELSE <<>>)

\* C18: when a key required for the chosen credentials source is absent or
\* mapped to the empty string, create returns no provider and throws an error
\* that names a key, and the key it names is the first such key in the order
\* source key, mode-specific keys, logical cluster, identity pool id.
C18_FirstMissingKey ==
  LET keys == RequiredKeys(factory.config)
      lacking == {i \in DOMAIN keys : Lacking(factory.config, keys[i])}
  IN  (factory.called /\ lacking # {}) =>
        /\ factory.provider = "none"
        /\ factory.error.what \in {"missing", "empty"}
        /\ \E i \in lacking :
             /\ factory.error.key = keys[i]
             /\ \A j \in lacking : i <= j
             /\ factory.error.what = "missing" <=> ~factory.config[keys[i]].present

\* STATIC_TOKEN with the token absent and the logical cluster empty: the error
\* names the token key
C18_Witness ==
  /\ factory.called
  /\ factory.config[SourceKey] = Mapped("STATIC_TOKEN")
  /\ factory.config["bearer.auth.token"] = Absent
  /\ factory.config["bearer.auth.logical.cluster"] = Mapped("")
  /\ factory.error = FactoryError("missing", "bearer.auth.token", "")

\* ------------------------------------------- OAuthClientProvider::Config
\* the Configs validate is called with
ValidateConfigs ==
  [client_id : {"", "client-id"}, client_secret : {"client-secret"},
   scope : {"schema_registry"}, token_endpoint_url : {"", "https://idp.example.com/token"},
   logical_cluster : {"", "lsrc-123"}, identity_pool_id : {"pool-456"},
   max_retries : {-1, 0, 1}, retry_base_delay_ms : 0 .. MaxDelay,
   retry_max_delay_ms : 0 .. MaxDelay,
   token_refresh_threshold : {-1, 0, ThDen, ThDen + 1}, http_timeout_seconds : {0, 1}]

notValidated ==
  <<config_, token_, mutex_, now, pc, attempt, response, reqs, result, probe, bk,
    clientVars, custom, staticProvider, factory, deserialized, keyed, named>>

\* Config::validate as defined first in OAuthProvider.cpp: the message of the
\* std::invalid_argument it throws, "" if it returns
validate(cfg) ==
  IF cfg.client_id = "" THEN "client_id is required"
  ELSE IF cfg.client_secret = "" THEN "client_secret is required"
  ELSE IF cfg.scope = "" THEN "scope is required"
  ELSE IF cfg.token_endpoint_url = "" THEN "token_endpoint_url is required"
  ELSE IF cfg.max_retries < 0 THEN "max_retries must be non-negative"
  ELSE IF cfg.retry_base_delay_ms <= 0 THEN "retry_base_delay_ms must be positive"
  ELSE IF cfg.retry_max_delay_ms <= 0 THEN "retry_max_delay_ms must be positive"
  ELSE IF cfg.retry_base_delay_ms > cfg.retry_max_delay_ms
    THEN "retry_base_delay_ms must not exceed retry_max_delay_ms"
  ELSE IF cfg.token_refresh_threshold < 0 \/ cfg.token_refresh_threshold > ThDen
    THEN "token_refresh_threshold must be between 0.0 and 1.0"
  ELSE IF cfg.http_timeout_seconds <= 0 THEN "http_timeout_seconds must be positive"
  ELSE ""

\* Config::validate as defined second in OAuthProvider.cpp
validate_2(cfg) ==
  IF cfg.client_id = "" THEN "client_id is required"
  ELSE IF cfg.client_secret = "" THEN "client_secret is required"
  ELSE IF cfg.scope = "" THEN "scope is required"
  ELSE IF cfg.token_endpoint_url = "" THEN "token_endpoint_url is required"
  ELSE IF cfg.logical_cluster = "" THEN "logical_cluster is required"
  ELSE IF cfg.identity_pool_id = "" THEN "identity_pool_id is required"
  ELSE IF cfg.max_retries < 0 THEN "max_retries must be non-negative"
  ELSE IF cfg.retry_base_delay_ms <= 0 THEN "retry_base_delay_ms must be positive"
  ELSE IF cfg.retry_max_delay_ms <= 0 THEN "retry_max_delay_ms must be positive"
  ELSE IF cfg.token_refresh_threshold < 0 \/ cfg.token_refresh_threshold > ThDen
    THEN "token_refresh_threshold must be between 0.0 and 1.0"
  ELSE IF cfg.http_timeout_seconds <= 0 THEN "http_timeout_seconds must be positive"
  ELSE ""

\* OAuthClientProvider::OAuthClientProvider: config_.validate(), with the
\* definition of validate the provider was built with
Validate(definition, cfg) ==
  /\ ~validated.called
  /\ validated' =
       [called |-> TRUE, definition |-> definition, cfg |-> cfg,
        error |-> IF definition = 1 THEN validate(cfg) ELSE validate_2(cfg)]
  /\ UNCHANGED notValidated

NextValidate == \E definition \in {1, 2}, cfg \in ValidateConfigs : Validate(definition, cfg)

SpecValidate == RegistryInit /\ [][NextValidate]_vars

\* C19 as stated: validate, and so the constructor, throws for every Config
\* with retry_base_delay_ms > retry_max_delay_ms, and when nothing else is
\* wrong with the Config the error is the one about base and max; no provider
\* is built with a base delay above its max delay.
C19_Original ==
  (/\ validated.called
   /\ validated.cfg.retry_base_delay_ms > validated.cfg.retry_max_delay_ms)
    => /\ validated.error # ""
       /\ (/\ validated.cfg.retry_max_delay_ms > 0
           /\ [validated.cfg EXCEPT !.retry_base_delay_ms = 1, !.retry_max_delay_ms = 1]
                = ValidConfig)
            => validated.error = "retry_base_delay_ms must not exceed retry_max_delay_ms"

\* --------------------------------------------------------- JsonDeserializer
notDeserialized ==
  <<config_, token_, mutex_, now, pc, attempt, response, reqs, result, probe, bk,
    clientVars, custom, staticProvider, factory, validated, keyed, named>>

\* the bytes of a payload: a digit, white space, a byte no JSON text has
PayloadBytes == {"1", " ", "x"}

Payloads == UNION {[1 .. n -> PayloadBytes] : n \in 0 .. MaxPayload}

\* the bytes the schema id takes in front of the payload: a magic byte and the
\* id, or nothing when the id travels in a header
Framing(framing) == IF framing = "prefix" THEN <<"0", "7">> ELSE <<>>

\* schema_id_deserializer: the number of bytes it read
id_deserializer(data, framing) == Len(Framing(framing))

\* getReaderSchema is asked only under a subject that is not empty, and
\* answers the same under the same subject
DeserializeInputs ==
  {in \in [initial_subject : {"", "topic-", "widget-value"},
           initial_reader : {"none", "same", "newer", "broken"},
           subject : {"", "widget-value"},
           framing : {"prefix", "header"}, payload : Payloads,
           reader : {"none", "same", "newer", "broken"},
           rules : {"none", "encoding", "encoding_failing", "domain", "failing"},
           validate : BOOLEAN, conforms : BOOLEAN] :
     /\ in.initial_subject = "" => in.initial_reader = "none"
     /\ in.subject = "" => in.reader = "none"
     /\ in.initial_subject = in.subject => in.initial_reader = in.reader}

\* white space around a JSON text is skipped
RECURSIVE SkipLeft(_)
SkipLeft(bytes) ==
  IF bytes # <<>> /\ Head(bytes) = " " THEN SkipLeft(Tail(bytes)) ELSE bytes

RECURSIVE SkipRight(_)
SkipRight(bytes) ==
  IF bytes # <<>> /\ bytes[Len(bytes)] = " "
    THEN SkipRight(SubSeq(bytes, 1, Len(bytes) - 1))
    ELSE bytes

JsonValue(value) == [kind |-> "ok", value |-> value]

JsonError(what) == [kind |-> what, value |-> <<>>]

\* nlohmann::json::parse on the texts of the model: a number, with white
\* space around it; everything else is a parse_error
parse(bytes) ==
  LET text == SkipRight(SkipLeft(bytes))
  IN  IF text # <<>> /\ \A i \in DOMAIN text : text[i] \in {"0", "1", "7"}
        THEN JsonValue(text)
        ELSE JsonError("parse_error")

\* an encoding rule's result on the bytes, a migration's and a domain rule's
\* result on the value: each leaves its mark
executeRulesWithPhase(bytes) == <<"1">> \o bytes

executeMigrations(value) == value \o <<"0">>

executeRules(value, rules) == IF rules = "domain" THEN value \o <<"7">> ELSE value

message_data_unframed(data, bytes_read) == data

\* message_data, message_size: the bytes after the ones id_deserializer read
message_data(data, bytes_read) == SubSeq(data, bytes_read + 1, Len(data))

subject_any(subject) == FALSE

\* subject.empty()
subject_empty(subject) == subject = ""

validate_always(in) == TRUE

\* base_->getConfig().validate
validate_enabled(in) == in.validate

\* an optional RegisteredSchema: the schema and the subject it was found under
Latest(schema, subject) == [schema |-> schema, subject |-> subject]

NoLatest == Latest("none", "")

\* latest_schema after "Try to get reader schema with initial subject"
initial_latest_schema(in) ==
  IF in.initial_subject # "" /\ in.initial_reader # "none"
    THEN Latest(in.initial_reader, in.initial_subject)
    ELSE NoLatest

\* subject != initial_subject && !subject.empty()
subject_changed(in) == in.subject # in.initial_subject /\ in.subject # ""

\* latest_schema after "If subject changed, try to get reader schema again":
\* an exception of the second getReaderSchema leaves latest_schema as it was
latest_schema(in) ==
  IF subject_changed(in) /\ in.reader # "none"
    THEN Latest(in.reader, in.subject)
    ELSE initial_latest_schema(in)

has_value_always(latest) == TRUE

\* latest_schema.has_value()
has_value(latest) == latest.schema # "none"

\* !migrations.empty(): the chain between a writer schema and the same schema
\* is empty
migrations_nonempty(latest) == has_value(latest) /\ latest.schema # "same"

\* the rules of reader_schema_raw: the reader schema found, else the writer's
reader_rules(in) ==
  IF migrations_nonempty(latest_schema(in)) THEN "none" ELSE in.rules

\* a step of the pipeline with what it was given
Step(name, on) == [step |-> name, on |-> on]

parse_error_ignored(parsed) == FALSE

\* json::parse threw parse_error
parse_error(parsed) == parsed.kind # "ok"

\* JsonDeserializer::Impl::deserialize on the bytes data: the steps it runs,
\* in order, the reader schema it settles on, and the value it returns or the
\* error it throws
deserialize_run(in, data) ==
  LET latest == latest_schema(in)
      message == message_data(data, id_deserializer(data, in.framing))
      encoding == in.rules \in {"encoding", "encoding_failing"}
      decoded == IF encoding THEN executeRulesWithPhase(message) ELSE message
      parsed == parse(decoded)
      migrated == IF migrations_nonempty(latest) THEN executeMigrations(parsed.value)
                  ELSE parsed.value
      value == executeRules(migrated, reader_rules(in))
      fetched == (IF in.initial_subject # ""
                    THEN <<Step("getReaderSchema", <<in.initial_subject>>)>> ELSE <<>>)
                 \o <<Step("id_deserializer", data), Step("getWriterSchema", <<>>)>>
                 \o (IF subject_changed(in)
                       THEN <<Step("getReaderSchema", <<in.subject>>)>> ELSE <<>>)
      encoded == fetched
                 \o (IF encoding THEN <<Step("executeRulesWithPhase", message)>> ELSE <<>>)
      planned == encoded
                 \o (IF has_value(latest) THEN <<Step("getMigrations", <<>>)>> ELSE <<>>)
                 \o <<Step("parse", decoded)>>
      moved == planned
               \o (IF migrations_nonempty(latest)
                     THEN <<Step("executeMigrations", parsed.value)>> ELSE <<>>)
      ruled == moved \o <<Step("executeRules", migrated)>>
      checked == ruled \o <<Step("validateJson", value)>>
      reader == IF has_value(latest) THEN latest ELSE Latest("writer", in.subject)
      Run(output, ran, r) == [output |-> output, ran |-> ran, reader_schema_raw |-> r]
  IN  IF subject_empty(in.subject)
        THEN Run(JsonError("Could not determine subject name"), fetched, NoLatest)
      ELSE IF in.rules = "encoding_failing"
        THEN Run(JsonError("Rule failed"), encoded, NoLatest)
      ELSE IF parse_error(parsed)
        THEN Run(JsonError("Failed to parse JSON"), planned, reader)
      ELSE IF migrations_nonempty(latest) /\ latest.schema = "broken"
        THEN Run(JsonError("Migration failed"), moved, reader)
      ELSE IF reader_rules(in) = "failing"
        THEN Run(JsonError("Rule failed"), ruled, reader)
      ELSE IF ~validate_enabled(in) THEN Run(JsonValue(value), ruled, reader)
      ELSE IF ~in.conforms
        THEN Run(JsonError("JSON validation failed"), checked, reader)
      ELSE Run(JsonValue(value), checked, reader)

deserialize(in, data) == deserialize_run(in, data).output

Deserialize(in) ==
  /\ ~deserialized.called
  /\ deserialized' =
       [called |-> TRUE, input |-> in,
        output |-> deserialize(in, Framing(in.framing) \o in.payload),
        ran |-> deserialize_run(in, Framing(in.framing) \o in.payload).ran,
        reader_schema_raw |->
          deserialize_run(in, Framing(in.framing) \o in.payload).reader_schema_raw]
  /\ UNCHANGED notDeserialized

NextDeserialize == \E in \in DeserializeInputs : Deserialize(in)

SpecDeserialize == RegistryInit /\ [][NextDeserialize]_vars

\* C20: with no reader schema found and no rules on the writer schema, the
\* value deserialize returns is the JSON value of the payload bytes that follow
\* the schema id, as the parser gives it; deserialize throws instead when the
\* subject is empty, the payload is not JSON, or validation is on and fails.
C20_ValueUnchanged ==
  LET in == deserialized.input
  IN  (deserialized.called /\ ~has_value(latest_schema(in)) /\ in.rules = "none") =>
        IF in.subject # "" /\ parse(in.payload).kind = "ok" /\ (in.validate => in.conforms)
          THEN deserialized.output = parse(in.payload)
          ELSE deserialized.output.kind \notin {"ok", "none"}

\* a framed payload with white space around the number was returned as the
\* number, validation on
C20_Witness ==
  /\ deserialized.called
  /\ deserialized.input.initial_reader = "none"
  /\ deserialized.input.reader = "none" /\ deserialized.input.rules = "none"
  /\ deserialized.input.framing = "prefix" /\ deserialized.input.validate
  /\ deserialized.input.payload = <<" ", "1">>
  /\ deserialized.output = JsonValue(<<"1">>)

\* the names of the steps a call ran
StepsRan == {deserialized.ran[i].step : i \in DOMAIN deserialized.ran}

\* C21: when the subject resolved after the writer schema was fetched is
\* empty, deserialize fails with the serde error "Could not determine subject
\* name" and that call runs no encoding rule, migration, domain rule or
\* validation.
C21_EmptySubjectFails ==
  (deserialized.called /\ deserialized.input.subject = "") =>
    /\ deserialized.output = JsonError("Could not determine subject name")
    /\ {"id_deserializer", "getWriterSchema"} \subseteq StepsRan
    /\ StepsRan \subseteq {"getReaderSchema", "id_deserializer", "getWriterSchema"}

\* an empty subject although the writer schema has encoding rules, a newer
\* reader schema was found and validation is on
C21_Witness ==
  /\ deserialized.called
  /\ deserialized.input.subject = ""
  /\ deserialized.input.rules = "encoding"
  /\ deserialized.input.initial_reader = "newer"
  /\ deserialized.input.validate
  /\ deserialized.input.payload = <<"1">>
  /\ deserialized.output.kind = "Could not determine subject name"

NoReaderObtained(in) ==
  /\ in.initial_subject = "" \/ in.initial_reader = "none"
  /\ subject_changed(in) => in.reader = "none"

\* the bytes json::parse is given for the input in
DecodedPayload(in) ==
  IF in.rules \in {"encoding", "encoding_failing"}
    THEN executeRulesWithPhase(in.payload) ELSE in.payload

\* C31: when no reader schema is obtained (the initial subject is empty, or
\* every probe throws), deserialize does not fail for that reason: it fails
\* only for an empty subject, a failing rule, bytes that are not JSON or a
\* failed validation; the reader schema is the writer schema, no migration
\* chain is computed, no migration is executed, and the value returned is the
\* parsed value under the writer schema's domain rules.
C31_NoReaderIsNoFailure ==
  LET in == deserialized.input
      fine == /\ in.subject # ""
              /\ in.rules \notin {"encoding_failing", "failing"}
              /\ parse(DecodedPayload(in)).kind = "ok"
              /\ in.validate => in.conforms
  IN  (deserialized.called /\ NoReaderObtained(in)) =>
        /\ StepsRan \cap {"getMigrations", "executeMigrations"} = {}
        /\ "parse" \in StepsRan =>
             deserialized.reader_schema_raw = Latest("writer", in.subject)
        /\ IF fine
             THEN deserialized.output =
                    JsonValue(executeRules(parse(DecodedPayload(in)).value, in.rules))
             ELSE deserialized.output.kind \in
                    {"Could not determine subject name", "Rule failed",
                     "Failed to parse JSON", "JSON validation failed"}

\* both probes threw, under the initial and under the final subject, and the
\* call returned the value with the writer schema's domain rule applied
C31_Witness ==
  /\ deserialized.called
  /\ deserialized.input.initial_subject = "topic-"
  /\ deserialized.input.initial_reader = "none"
  /\ deserialized.input.subject = "widget-value"
  /\ deserialized.input.reader = "none"
  /\ deserialized.input.rules = "domain"
  /\ deserialized.input.validate
  /\ Len(SelectSeq(deserialized.ran, LAMBDA st : st.step = "getReaderSchema")) = 2
  /\ deserialized.reader_schema_raw = Latest("writer", "widget-value")
  /\ deserialized.output = JsonValue(<<"1", "7">>)

\* the stages of a run, in the order the pipeline names them
StageRank ==
  [executeRulesWithPhase |-> 1, parse |-> 2, executeMigrations |-> 3,
   executeRules |-> 4, validateJson |-> 5]

\* the stage steps the call ran, in the order it ran them
StageSteps ==
  SelectSeq(deserialized.ran, LAMBDA st : st.step \in DOMAIN StageRank)

\* the stage step st fails on the input in
StageFails(st, in) ==
  CASE st.step = "executeRulesWithPhase" -> in.rules = "encoding_failing"
    [] st.step = "parse" -> parse(st.on).kind # "ok"
    [] st.step = "executeMigrations" -> latest_schema(in).schema = "broken"
    [] st.step = "executeRules" -> reader_rules(in) = "failing"
    [] st.step = "validateJson" -> ~in.conforms

\* C32: in every run the stages execute in the order encoding rules (only if
\* the writer schema has encoding rules, on the raw bytes), parse (on the
\* bytes the encoding rules gave), migrations (only if the chain is not
\* empty), domain rules, validation; each at most once; a stage that fails is
\* the last one run and the call fails; a call that returns a value ran the
\* parse and the domain rules.
C32_StageOrder ==
  LET in == deserialized.input
      n == Len(StageSteps)
  IN  deserialized.called =>
        /\ \A i, j \in 1 .. n :
             i < j => StageRank[StageSteps[i].step] < StageRank[StageSteps[j].step]
        /\ \A i \in 1 .. n :
             /\ StageSteps[i].step = "executeRulesWithPhase" =>
                  /\ in.rules \in {"encoding", "encoding_failing"}
                  /\ StageSteps[i].on = in.payload
             /\ StageSteps[i].step = "parse" => StageSteps[i].on = DecodedPayload(in)
             /\ StageSteps[i].step = "executeMigrations" =>
                  migrations_nonempty(latest_schema(in))
             /\ StageFails(StageSteps[i], in) =>
                  i = n /\ deserialized.output.kind \notin {"ok", "none"}
        /\ (in.subject # "" /\ in.rules \in {"encoding", "encoding_failing"})
             => n >= 1 /\ StageSteps[1].step = "executeRulesWithPhase"
        /\ ("executeRules" \in StepsRan /\ migrations_nonempty(latest_schema(in)))
             => "executeMigrations" \in StepsRan
        /\ deserialized.output.kind = "ok" =>
             {"parse", "executeRules"} \subseteq StepsRan

\* all five stages ran, in order, and the last one failed the call
C32_Witness ==
  /\ deserialized.called
  /\ deserialized.input.rules = "encoding"
  /\ deserialized.input.reader = "newer"
  /\ deserialized.input.payload = <<"1">>
  /\ [i \in 1 .. Len(StageSteps) |-> StageSteps[i].step] =
       <<"executeRulesWithPhase", "parse", "executeMigrations", "executeRules",
         "validateJson">>
  /\ deserialized.output = JsonError("JSON validation failed")

\* C33 as stated: the schema-id framing is decoded before the initial subject
\* is probed: no getReaderSchema request comes before id_deserializer in a run.
C33_Original ==
  deserialized.called =>
    \A i, j \in DOMAIN deserialized.ran :
      (deserialized.ran[i].step = "getReaderSchema"
         /\ deserialized.ran[j].step = "id_deserializer") => j < i

\* what the code keeps of C33: the writer schema is fetched, and the subject
\* probed again, only after the framing has been decoded
WriterSchemaAfterFraming ==
  deserialized.called =>
    \A i, j \in DOMAIN deserialized.ran :
      (deserialized.ran[i].step = "getWriterSchema"
         /\ deserialized.ran[j].step = "id_deserializer") => j < i

\* ------------------------------------------------ getJsonSchemaRecordName
\* the longest "$id" and the characters of one
MaxIdLen == 3

IdChars == {"h", "w", "/"}

IdTexts == UNION {[1 .. n -> IdChars] : n \in 0 .. MaxIdLen}

Members(texts) ==
  {Member("absent", <<>>), Member("number", <<>>)}
    \cup {Member("string", text) : text \in texts}

\* what the function is given: no schema text, a text that is not JSON, a JSON
\* array, or a JSON object with or without "title" and "$id"
RecordSchemas ==
  {NoSchema}
    \cup {[NoSchema EXCEPT !.kind = kind] : kind \in {"unparsable", "array"}}
    \cup {[kind |-> "object", title |-> title, id |-> id] :
            title \in Members({<<>>, <<"W">>}), id \in Members(IdTexts)}

find_first_of(id, c) ==
  IF \E i \in DOMAIN id : id[i] = c
    THEN CHOOSE i \in DOMAIN id : id[i] = c /\ \A j \in 1 .. i - 1 : id[j] # c
    ELSE 0

\* id.find_last_of(c): the position of the last c, counted from 1; 0 for npos
find_last_of(id, c) ==
  IF \E i \in DOMAIN id : id[i] = c
    THEN CHOOSE i \in DOMAIN id : id[i] = c /\ \A j \in i + 1 .. Len(id) : id[j] # c
    ELSE 0

\* "Extract name from URI (last path component)"
name_of_id(id) ==
  LET pos == find_last_of(id, "/")
  IN  IF pos # 0 /\ pos < Len(id) THEN SubSeq(id, pos + 1, Len(id)) ELSE id

\* getJsonSchemaRecordName(schema)
getJsonSchemaRecordName(schema) ==
  IF schema.kind # "object" THEN <<>>
  ELSE IF schema.title.is = "string" THEN schema.title.text
  ELSE IF schema.id.is = "string" THEN name_of_id(schema.id.text)
  ELSE <<>>

GetJsonSchemaRecordName(schema) ==
  /\ ~named.called
  /\ named' = [called |-> TRUE, schema |-> schema,
               name |-> getJsonSchemaRecordName(schema)]
  /\ UNCHANGED <<oauthVars, probe, bk, clientVars, custom, staticProvider,
                 factory, validated, deserialized, keyed>>

NextRecordName == \E schema \in RecordSchemas : GetJsonSchemaRecordName(schema)

\* one call of getJsonSchemaRecordName with any schema
SpecRecordName == RegistryInit /\ [][NextRecordName]_vars

\* the segments of a path: the parts between its '/'
RECURSIVE Segments(_)
Segments(id) ==
  LET pos == find_first_of(id, "/")
  IN  IF pos = 0 THEN <<id>>
      ELSE <<SubSeq(id, 1, pos - 1)>> \o Segments(SubSeq(id, pos + 1, Len(id)))

\* the name falls back to "$id": an object with no string title and a string id
FromId(schema) ==
  schema.kind = "object" /\ schema.title.is # "string" /\ schema.id.is = "string"

BeginGet(t) ==
  /\ pc[t] \in {"idle", "done"}
  /\ pc' = [pc EXCEPT ![t] = "rlock"]
  /\ UNCHANGED <<config_, token_, mutex_, now, attempt, response, reqs, result>>
  /\ UNCHANGED notOAuth

\* the waiting thread gets the shared lock
LockShared(t) == StartCall(t, "rlock")

\* a thread calls invalidate_token and comes to wait for the exclusive lock
BeginInvalidate(t) ==
  /\ pc[t] \in {"idle", "done"}
  /\ pc' = [pc EXCEPT ![t] = "ilock"]
  /\ UNCHANGED <<config_, token_, mutex_, now, attempt, response, reqs, result>>
  /\ UNCHANGED notOAuth

\* the waiting thread gets the exclusive lock: token_ = OAuthToken{}, unlock
InvalidateLocked(t) ==
  /\ pc[t] = "ilock"
  /\ ExclusiveFree(mutex_)
  /\ token_' = InvalidatedToken(token_)
  /\ attempt' = [attempt EXCEPT ![t] = 0]
  /\ response' = [response EXCEPT ![t] = NoReply]
  /\ reqs' = [reqs EXCEPT ![t] = 0]
  /\ result' = [result EXCEPT ![t] = VoidResult]
  /\ pc' = [pc EXCEPT ![t] = "done"]
  /\ UNCHANGED <<config_, mutex_, now>>
  /\ UNCHANGED notOAuth

NextLive ==
  \/ \E t \in Threads :
       \/ BeginGet(t)
       \/ LockShared(t)
       \/ ReadCheck(t)
       \/ WriteCheck(t)
       \/ SendRequest(t)
       \/ \E r \in CoreReplies : ReceiveResponse(t, r)
       \/ Sleep(t)
       \/ BeginInvalidate(t)
       \/ InvalidateLocked(t)
  \/ Tick

\* every thread that can keep taking its next step takes it, and every request
\* returns; nothing is assumed of which waiting thread the mutex serves
LiveFairness ==
  \A t \in Threads :
    /\ WF_vars(LockShared(t))
    /\ WF_vars(ReadCheck(t))
    /\ WF_vars(WriteCheck(t))
    /\ WF_vars(SendRequest(t))
    /\ WF_vars(\E r \in CoreReplies : ReceiveResponse(t, r))
    /\ WF_vars(Sleep(t))
    /\ WF_vars(InvalidateLocked(t))

\* any number of threads calling get_bearer_fields and invalidate_token, the
\* threads scheduled and the requests answered
SpecLive == Init /\ [][NextLive]_vars /\ LiveFairness

\* thread t is inside a call; it waits for the mutex; it can take a step
InCall(t) == pc[t] \notin {"idle", "done"}

Waiting(t) == pc[t] \in {"rlock", "wlock", "ilock"}

CanStep(t) ==
  \/ pc[t] \in {"rcheck", "post", "http", "sleep"}
  \/ pc[t] = "rlock" /\ SharedFree(mutex_)
  \/ pc[t] \in {"wlock", "ilock"} /\ ExclusiveFree(mutex_)

HeldOnlyInside ==
  \A t \in Threads :
    /\ t \in mutex_.readers => pc[t] = "rcheck"
    /\ mutex_.writer = t => pc[t] \in {"post", "http", "sleep"}

\* while any thread is inside a call, some thread inside a call can step
NoDeadlock ==
  (\E t \in Threads : InCall(t)) => \E u \in Threads : InCall(u) /\ CanStep(u)

C36_Original ==
  \A t \in Threads : result[t].kind = "ok" => result[t].access_token # ""

\* what the code keeps of C36: a return served from the stored token, with no
\* request made by the call, carries a token that is not empty
CachedTokenNotEmpty ==
  \A t \in Threads :
    (result[t].kind = "ok" /\ reqs[t] = 0) => result[t].access_token # ""

\* ------------------------------------------------- OAuthClientProvider (rev. 2)
\* a 2xx body with a string access_token and an expires_in that is not an integer
PartialReplies == {Reply(200, "badexp", "tokB", TRUE, 0, "json")}

Replies_2 == Replies \cup PartialReplies

\* std::lock_guard<std::mutex> lock(mutex_) of get_bearer_fields
Lock_2(t, from) ==
  /\ pc[t] = from
  /\ ExclusiveFree(mutex_)
  /\ mutex_' = [mutex_ EXCEPT !.writer = t]
  /\ pc' = [pc EXCEPT ![t] = "check"]
  /\ attempt' = [attempt EXCEPT ![t] = 0]
  /\ response' = [response EXCEPT ![t] = NoReply]
  /\ reqs' = [reqs EXCEPT ![t] = 0]
  /\ result' = [result EXCEPT ![t] = NoResult]
  /\ UNCHANGED <<config_, token_, now>>
  /\ UNCHANGED notOAuth

Call_2(t) == Lock_2(t, "idle")

CallAgain_2(t) == Lock_2(t, "done")

\* `!token_.is_valid() || token_.is_expired(...)`: fetch_token, or return the
\* fields of token_ and unlock
Check_2(t) ==
  /\ pc[t] = "check"
  /\ IF ~is_valid(token_) \/ is_expired(token_, config_.token_refresh_threshold, now)
       THEN /\ pc' = [pc EXCEPT ![t] = "post"]
            /\ UNCHANGED <<result, mutex_>>
       ELSE /\ result' = [result EXCEPT ![t] = BearerFields(token_, config_)]
            /\ pc' = [pc EXCEPT ![t] = "done"]
            /\ mutex_' = [mutex_ EXCEPT !.writer = NoThread]
  /\ UNCHANGED <<config_, token_, now, attempt, response, reqs>>
  /\ UNCHANGED notOAuth

\* what the try block has assigned to token_ when it is left, for a 2xx reply
\* read at clock value t
token_after(tok, r, t) ==
  IF r.kind = "token" THEN NewToken(r, t)
  ELSE IF r.kind = "badexp" THEN [tok EXCEPT !.access_token = r.access_token]
  ELSE tok

\* the handler a reply ends in: "return", the json::exception handler
\* ("parse"), or the std::exception handler ("after")
Handler_2(r) ==
  IF ~Is2xx(r.status) THEN "after"
  ELSE IF r.kind = "token" THEN "return"
  ELSE IF r.kind = "missing" THEN "after"
  ELSE "parse"

\* `attempt >= config_.max_retries`, in each of the handlers
LastAttempt_2(att, cfg) == att >= cfg.max_retries

\* fetch_token: cpr::Post returns r; the rest of the loop body up to the
\* sleep, and on return or throw the rest of get_bearer_fields
ReceiveResponse_2(t, r) ==
  /\ pc[t] = "http"
  /\ response' = [response EXCEPT ![t] = r]
  /\ token_' = IF Is2xx(r.status) THEN token_after(token_, r, now) ELSE token_
  /\ IF Handler_2(r) = "return"
       THEN /\ result' = [result EXCEPT ![t] = BearerFields(NewToken(r, now), config_)]
            /\ pc' = [pc EXCEPT ![t] = "done"]
            /\ mutex_' = [mutex_ EXCEPT !.writer = NoThread]
       ELSE IF LastAttempt_2(attempt[t], config_)
              THEN /\ result' = [result EXCEPT ![t] =
                         IF Handler_2(r) = "parse" THEN AuthError("parse", 0, "")
                         ELSE IF Is2xx(r.status) THEN AuthError("after", 0, "")
                         ELSE AuthError("after", r.status, r.text)]
                   /\ pc' = [pc EXCEPT ![t] = "done"]
                   /\ mutex_' = [mutex_ EXCEPT !.writer = NoThread]
              ELSE /\ pc' = [pc EXCEPT ![t] = "sleep"]
                   /\ UNCHANGED <<result, mutex_>>
  /\ UNCHANGED <<config_, now, attempt, reqs>>
  /\ UNCHANGED notOAuth

NextFetch_2 ==
  \/ Call_2(1)
  \/ CallAgain_2(1)
  \/ Check_2(1)
  \/ SendRequest(1)
  \/ \E r \in Replies_2 : ReceiveResponse_2(1, r)
  \/ Sleep(1)
  \/ Invalidate(1)
  \/ Tick

\* the second definition of the provider: a single caller against an endpoint
\* that may answer anything
SpecFetch_2 == FetchInit /\ [][NextFetch_2]_vars

\* a completely parsed 2xx reply has just replaced token_
ReplacedWholesale ==
  \E t \in Threads :
    /\ Is2xx(response'[t].status) /\ response'[t].kind = "token"
    /\ token_' = NewToken(response'[t], now)
    /\ result'[t].kind = "ok"

\* C23 as stated: token_ changes only by being replaced wholesale with a
\* completely parsed new token, or by being reset to empty by
\* invalidate_token; a failed get_bearer_fields leaves it field for field as
\* it was.
C23_Original ==
  [][token_' # token_ =>
       \/ ReplacedWholesale
       \/ \E t \in Threads : result'[t] = VoidResult /\ token_' = EmptyToken]_vars

\* a failed attempt has just ended the call of thread t with an error
FailedNow(t) == pc[t] = "http" /\ pc'[t] = "done" /\ result'[t].kind = "error"

\* a failed attempt of thread t is followed by the sleep before the next one
RetriedNow(t) == pc[t] = "http" /\ pc'[t] = "sleep"

\* C24 as stated: a 2xx reply whose body cannot be parsed, or has no
\* access_token, ends the fetch only when max_retries retries have been made;
\* before that fetch_token sleeps and tries again.
C24_Original ==
  [][\A t \in Threads :
       (/\ pc[t] = "http" /\ pc'[t] # "http"
        /\ Is2xx(response'[t].status)
        /\ response'[t].kind \in {"garbage", "missing"})
         => IF attempt[t] < config_.max_retries THEN RetriedNow(t) ELSE FailedNow(t)]_vars

\* C25 as stated: a failed request is retried, after a sleep, exactly when
\* fewer than max_retries retries have been made and its status is 0 or is a
\* status >= 400 that isRetriable accepts; a status >= 400 that isRetriable
\* rejects fails the fetch at once, with no sleep.
C25_Original ==
  [][\A t \in Threads :
       (/\ pc[t] = "http" /\ pc'[t] # "http"
        /\ (response'[t].status = 0 \/ response'[t].status >= 400))
         => IF /\ attempt[t] < config_.max_retries
               /\ (response'[t].status = 0 \/ isRetriable(response'[t].status))
              THEN RetriedNow(t)
              ELSE FailedNow(t)]_vars

\* ------------------------------------------------ the delay between attempts
\* int of Width bits
IntMax == Pow2(Width - 1) - 1

IntMin == -Pow2(Width - 1)

\* the value a signed overflow leaves where the build wraps
Wrap(n) == ((n + Pow2(Width - 1)) % Pow2(Width)) - Pow2(Width - 1)

\* 1 << attempt.  Shifting into the sign bit gives INT_MIN; a shift count of
\* the width or more is undefined behaviour: the count is masked (x86) or the
\* bit is shifted out (ARM).
ShiftLeft(att) ==
  IF att < Width - 1 THEN {Pow2(att)}
  ELSE IF att = Width - 1 THEN {IntMin}
  ELSE {Wrap(Pow2(att % Width)), 0}

\* config_.retry_base_delay_ms * (1 << attempt).  Signed overflow is undefined
\* behaviour: the product wraps, or the build traps.
exponential_delay(base, att) ==
  UNION {IF base * sh >= IntMin /\ base * sh <= IntMax
           THEN {[fault |-> FALSE, v |-> base * sh]}
           ELSE {[fault |-> FALSE, v |-> Wrap(base * sh)], [fault |-> TRUE, v |-> 0]}
         : sh \in ShiftLeft(att)}

\* std::uniform_int_distribution<> dis(0, capped_delay); dis(gen).  With
\* capped_delay < 0 the distribution's precondition a <= b is broken: the
\* build asserts, or returns some int.
dis(capped_delay) ==
  IF capped_delay >= 0 THEN {[fault |-> FALSE, v |-> d] : d \in 0 .. capped_delay}
  ELSE {[fault |-> TRUE, v |-> 0]} \cup {[fault |-> FALSE, v |-> d] : d \in IntMin .. IntMax}

\* OAuthClientProvider::calculate_backoff_delay(attempt): what it can return
calculate_backoff_delay(base, att, max) ==
  UNION {IF e.fault THEN {e} ELSE dis(Min(e.v, max)) : e \in exponential_delay(base, att)}

\* calculate_backoff_delay(bk.retry_attempt) with retry_base_delay_ms and
\* retry_max_delay_ms of the configuration
CalculateBackoffDelay ==
  /\ bk.fn = "none"
  /\ \E out \in calculate_backoff_delay(bk.initial_backoff_ms, bk.retry_attempt,
                                         bk.max_backoff) :
       bk' = [bk EXCEPT !.fn = "calculate_backoff_delay", !.delay = out.v,
                        !.fault = out.fault]
  /\ UNCHANGED notBackoff

\* the delays of a validated configuration: base and max positive, the
\* attempt below max_retries, which validate bounds only from below
DelayInit ==
  /\ ProviderInit
  /\ config_ = OneConfig
  /\ ClientInit
  /\ OthersInit
  /\ bk \in {[NoBk EXCEPT !.initial_backoff_ms = i, !.retry_attempt = a, !.max_backoff = m] :
               i \in 1 .. IntMax, a \in 0 .. Width + 1, m \in 1 .. IntMax}

NextDelay == CalculateExponentialBackoff \/ CalculateBackoffDelay

\* the delay fetch_token sleeps, as either definition computes it
SpecDelay == DelayInit /\ [][NextDelay]_vars

\* C26 as stated: the delay slept before a retry is computed without fault
\* and lies in [0, retry_max_delay_ms], for every attempt and every validated
\* configuration, also when base * 2^attempt exceeds the range of int.
C26_Original ==
  bk.fn \in {"backoff", "calculate_backoff_delay"} =>
    /\ ~bk.fault
    /\ 0 <= bk.delay /\ bk.delay <= bk.max_backoff

\* ------------------------------------------------ the views of the store
\* replies of a registry that echoes the key it was asked for; the id and the
\* guid may be missing from a body (0, "")
StoreReplies ==
  {[RegistryReply(200, TRUE, id, version, schema) EXCEPT !.guid = guid] :
     id \in Ids \cup {0}, guid \in {"g1", ""}, version \in Versions, schema \in Schemas}
  \cup {RegistryReply(status, FALSE, 0, 0, "") : status \in {200, 404}}

NextStore ==
  \/ \E subject \in Subjects \cup {""}, id \in Ids : GetBySubjectAndId(Caller, subject, id)
  \/ GetByGuid(Caller, "g1")
  \/ \E subject \in Subjects, version \in Versions : GetVersion(Caller, subject, version)
  \/ \E subject \in Subjects, schema \in Schemas : GetBySchema(Caller, subject, schema)
  \/ SendHttpRequest(Caller)
  \/ \E r \in StoreReplies : ReceiveHttp(Caller, r)
  \/ ClearLatestCaches(Caller)
  \/ ClearStore(Caller)

\* one caller looking schemas up by id, guid, version and content
SpecStore == RegistryInit /\ [][NextStore]_vars

StoreLookups == {"getBySubjectAndId", "getByGuid", "getVersion", "getBySchema"}

\* what the cache check of the lookup with key k finds in the store
StoreFind(st, k) ==
  CASE k.op = "getBySubjectAndId" -> StoreGetSchemaById(st, k.subject, k.id)
    [] k.op = "getByGuid" -> StoreGetSchemaByGuid(st, k.guid)
    [] k.op = "getVersion" -> StoreGetRegisteredByVersion(st, k.subject, k.version)
    [] k.op = "getBySchema" -> StoreGetRegisteredBySchema(st, k.subject, k.schema)
    [] OTHER -> {}

\* thread t begins a call
Begins(t) ==
  /\ cpc[t] \in {"idle", "done"} /\ cpc'[t] \in {"miss", "done"} /\ ckey'[t] # NoKey
  /\ <<cpc'[t], ckey'[t], cres'[t], creq'[t], cresp'[t]>>
       # <<cpc[t], ckey[t], cres[t], creq[t], cresp[t]>>

\* the request of thread t's call returns
Returns(t) == cpc[t] = "http" /\ cpc'[t] = "done"

ViewsAgree(st) ==
  \A e \in st : (e.view = "byId" /\ e.guid # "") => StoreGetSchemaByGuid(st, e.guid) # {}

\* C28: a successful getBySubjectAndId whose response carries a guid leaves
\* the store with both the (subject, id) entry and the guid entry, a successful
\* getByGuid whose response carries an id with both the guid entry and the
\* ("", id) entry, each written in one step, so that no state has one without
\* the other; getByGuid(g) and getBySubjectAndId(no subject, i) that start
\* afterwards are answered from the store with no request.
C28_ViewsTogether ==
  [][/\ ViewsAgree(store')
     /\ \A t \in Threads :
          /\ (Returns(t) /\ cres'[t].kind = "fetched" /\ ckey[t].op = "getBySubjectAndId"
                /\ cresp'[t].guid # "")
               => /\ StoreGetSchemaById(store', ckey[t].subject, ckey[t].id) # {}
                  /\ StoreGetSchemaByGuid(store', cresp'[t].guid) # {}
                  /\ StoreValue(StoreGetSchemaByGuid(store', cresp'[t].guid)) = cres'[t].value
          /\ (Returns(t) /\ cres'[t].kind = "fetched" /\ ckey[t].op = "getByGuid"
                /\ cresp'[t].id # 0)
               => /\ StoreGetSchemaByGuid(store', ckey[t].guid) # {}
                  /\ StoreGetSchemaById(store', "", cresp'[t].id) # {}
                  /\ StoreValue(StoreGetSchemaById(store', "", cresp'[t].id)) = cres'[t].value
          /\ (Begins(t) /\ ckey'[t].op = "getByGuid"
                /\ StoreGetSchemaByGuid(store, ckey'[t].guid) # {})
               => cres'[t].kind = "hit" /\ creq'[t] = 0 /\ cpc'[t] = "done"
          /\ (Begins(t) /\ ckey'[t] = ByIdKey("", ckey'[t].id)
                /\ StoreGetSchemaById(store, "", ckey'[t].id) # {})
               => cres'[t].kind = "hit" /\ creq'[t] = 0 /\ cpc'[t] = "done"]_vars

\* getByGuid was answered from the store, and the store has no entry under
\* the empty subject, which every getByGuid fetch leaves: the guid view was
\* filled by a getBySubjectAndId with a subject
C28_Witness ==
  /\ cpc[Caller] = "done" /\ cres[Caller].kind = "hit" /\ creq[Caller] = 0
  /\ ckey[Caller] = GuidKey("g1")
  /\ \A e \in store : e.view # "byGuid" => e.subject # ""
  /\ StoreGetSchemaById(store, "s1", 1) # {}
  /\ cres[Caller].value = StoreValue(StoreGetSchemaById(store, "s1", 1))

\* ---------------------------------------------------------------------------
\* SchemaRegistryClient::createMetadataKey, the key of latestWithMetadataCache.
\* A string is the sequence of its characters.

\* the longest metadata key, the longest metadata value and the most pairs of
\* one metadata map
MaxKeyLen == 1
MaxValueLen == 3
MaxEntries == 2

\* the characters of metadata keys and values: the two the key format uses
\* between and after the pairs
MetaChars == {"&", "="}

\* the code of a character, by which std::string compares
CharCode(c) ==
  CASE c = "&" -> 38
    [] c = "=" -> 61
    [] c = "s" -> 115
    [] c = "|" -> 124

StringsUpTo(n) == UNION {[1 .. k -> MetaChars] : k \in 0 .. n}

MetaSubjects == {<<"s">>, <<"s", "|">>}

\* a std::unordered_map<std::string, std::string>: one value per key
MetadataMaps ==
  UNION {[K -> StringsUpTo(MaxValueLen)] :
           K \in {L \in SUBSET StringsUpTo(MaxKeyLen) : Cardinality(L) <= MaxEntries}}

\* std::less<std::string>: lexicographic by character code, a prefix first
RECURSIVE StringLess(_, _)
StringLess(a, b) ==
  IF b = <<>> THEN FALSE
  ELSE IF a = <<>> THEN TRUE
  ELSE IF Head(a) # Head(b) THEN CharCode(Head(a)) < CharCode(Head(b))
  ELSE StringLess(Tail(a), Tail(b))

\* the pairs of sortedMetadata written in the order std::map iterates them
RECURSIVE WritePairs(_, _)
WritePairs(metadata, keys) ==
  IF keys = {} THEN <<>>
  ELSE LET first == CHOOSE k \in keys : \A l \in keys \ {k} : StringLess(k, l)
       IN  first \o <<"=">> \o metadata[first] \o <<"&">>
             \o WritePairs(metadata, keys \ {first})

\* key << subject << "|", then key << pair.first << "=" << pair.second << "&"
\* for each pair of the sorted copy
createMetadataKey(subject, metadata) ==
  subject \o <<"|">> \o WritePairs(metadata, DOMAIN metadata)

\* a first call: cacheKey = createMetadataKey(subject, metadata)
CreateMetadataKey ==
  /\ keyed.calls = 0
  /\ \E subject \in MetaSubjects, metadata \in MetadataMaps :
       keyed' = [keyed EXCEPT !.calls = 1, !.subject = subject,
                              !.metadata = metadata,
                              !.key = createMetadataKey(subject, metadata)]
  /\ UNCHANGED <<oauthVars, probe, bk, clientVars, custom, staticProvider,
                 factory, validated, deserialized, named>>

\* a second call, its key and its arguments compared with the first call's
CreateMetadataKeyAgain ==
  /\ keyed.calls = 1
  /\ \E subject \in MetaSubjects, metadata \in MetadataMaps :
       keyed' = [keyed EXCEPT
                   !.calls = 2,
                   !.same_key = (createMetadataKey(subject, metadata) = keyed.key),
                   !.same_input = (subject = keyed.subject /\ metadata = keyed.metadata)]
  /\ UNCHANGED <<oauthVars, probe, bk, clientVars, custom, staticProvider,
                 factory, validated, deserialized, named>>

MetadataKeyInit ==
  /\ ProviderInit
  /\ config_ = OneConfig
  /\ ClientInit
  /\ OthersInit
  /\ bk = NoBk

NextMetadataKey == CreateMetadataKey \/ CreateMetadataKeyAgain

\* two calls of createMetadataKey with any two pairs of arguments
SpecMetadataKey == MetadataKeyInit /\ [][NextMetadataKey]_vars

\* C29 as stated: two (subject, metadata) inputs get the same cache key if
\* and only if their subjects are equal and their metadata maps are equal,
\* also for strings that contain '|', '=' or '&'.
C29_Original ==
  keyed.calls = 2 => (keyed.same_key <=> keyed.same_input)

\* the half of C29 the code keeps: equal inputs get equal keys, whatever the
\* order the unordered_map holds its pairs in
SameInputSameKey ==
  keyed.calls = 2 => (keyed.same_input => keyed.same_key)

\* ------------------------------------------------------ clearCaches, close
NextClear ==
  \/ NextCalls
  \/ GetByGuid(Caller, "g1")

\* one caller, every operation and every lookup, and clearCaches
SpecClear == RegistryInit /\ [][NextClear]_vars

\* the operations that check a cache before they go to the registry
CachedLookups ==
  StoreLookups \cup {"registerSchema", "getLatestVersion", "getLatestWithMetadata"}

\* the store and both latest-version caches hold nothing
AllEmpty ==
  /\ store = {}
  /\ latestVersionCache = CacheClear(latestVersionCache)
  /\ latestWithMetadataCache = CacheClear(latestWithMetadataCache)

\* the clearCaches call of thread t returns
ClearCompletes(t) == cpc[t] = "clearing" /\ cpc'[t] = "done"

\* C30: when clearCaches (which is all close does) returns, no other operation
\* being in progress, the store and both latest-version caches are empty; a
\* lookup of any key made while they are empty misses and returns only
\* after a network call; and no step but the return of clearCaches takes an
\* entry's key out of the store.
C30_ClearedOnlyByClear ==
  [][/\ ClearCompletes(Caller) => AllEmpty'
     /\ (AllEmpty /\ Begins(Caller) /\ ckey'[Caller].op \in CachedLookups)
          => cpc'[Caller] = "miss" /\ creq'[Caller] = 0
     /\ (cpc[Caller] = "miss" /\ cpc'[Caller] # "miss")
          => cpc'[Caller] = "http" /\ creq'[Caller] = creq[Caller] + 1
     /\ \A e \in store :
          (\A f \in store' : ~SameKey(e, f)) => ClearCompletes(Caller)]_vars

\* clearCaches has emptied the latest-version caches and is about to clear a
\* store that holds an entry in each of its views
C30_Witness ==
  /\ cpc[Caller] = "clearing"
  /\ latestVersionCache = CacheClear(latestVersionCache)
  /\ latestWithMetadataCache = CacheClear(latestWithMetadataCache)
  /\ \A view \in {"byId", "byGuid", "bySchema", "byVersion"} :
       \E e \in store : e.view = view

\* ------------------------------------- registrations and the latest version
\* the highest version the registry of this specification holds
MaxVersion == 2

\* the replies of a registry whose subject has versions 1 .. MaxVersion
RegisterReplies ==
  {RegistryReply(200, TRUE, id, version, schema) :
     id \in Ids, version \in 1 .. MaxVersion, schema \in Schemas}
  \cup {RegistryReply(status, FALSE, 0, 0, "") : status \in {200, 404}}

NextRegister ==
  \/ \E subject \in Subjects :
       \/ GetLatestVersion(Caller, subject)
       \/ \E schema \in Schemas : RegisterSchema(Caller, subject, schema)
  \/ SendHttpRequest(Caller)
  \/ \E r \in RegisterReplies : ReceiveHttp(Caller, r)
  \/ Tick

\* one caller reading the latest version and registering schemas while the
\* clock runs
SpecRegister == RegistryInit /\ [][NextRegister]_vars

\* C37 as stated: the getLatestVersion(subject) that follows a registerSchema
\* (subject, schema) that went to the registry and got a version back does
\* not return an older version than that, also when an older latest version
\* was cached before the registration.
C37_Original ==
  [][\A subject \in Subjects, schema \in Schemas :
       (/\ NextCallAfter(Key("registerSchema", subject, 0, 0, schema), LatestKey(subject))
        /\ cpc'[Caller] = "done")
         => cres'[Caller].value.version >= cres[Caller].value.version]_vars

\* what the code keeps of C37: registerSchema leaves both latest-version
\* caches as they are
RegisterLeavesLatest ==
  [][ckey'[Caller].op = "registerSchema" =>
       UNCHANGED <<latestVersionCache, latestWithMetadataCache>>]_vars

\* ------------------------------------------ the arguments that shape a request
\* the key k of a call made with the given deleted flag and format
Shaped(k, deleted, format) == [k EXCEPT !.deleted = deleted, !.format = format]

\* "" stands for no format given
Formats == {"", "resolved"}

\* getVersion(subject, version, deleted, format), "Check cache first"
GetVersionShaped(t, subject, version, deleted, format) ==
  /\ BeginStoreCall(t, Shaped(Key("getVersion", subject, 0, version, ""), deleted, format),
                    StoreGetRegisteredByVersion(store, subject, version))
  /\ UNCHANGED cached
  /\ UNCHANGED notClient

\* getBySubjectAndId(subject, id, format), "Check cache first"
GetBySubjectAndIdShaped(t, subject, id, format) ==
  /\ BeginStoreCall(t, Shaped(ByIdKey(subject, id), FALSE, format),
                    StoreGetSchemaById(store, subject, id))
  /\ UNCHANGED cached
  /\ UNCHANGED notClient

\* getLatestWithMetadata(subject, metadata, deleted, format), "Check cache first"
GetLatestWithMetadataShaped(t, subject, deleted, format) ==
  /\ BeginCall(t, Shaped(Key("getLatestWithMetadata", subject, 0, 0, ""), deleted, format),
               CacheHas(latestWithMetadataCache, subject, now),
               CacheView(latestWithMetadataCache, now)[subject])
  /\ latestWithMetadataCache' = CacheAfterGet(latestWithMetadataCache, subject, now)
  /\ UNCHANGED <<store, latestVersionCache>>
  /\ UNCHANGED notClient

NextShaped ==
  \/ \E subject \in Subjects, format \in Formats :
       \/ \E version \in Versions, deleted \in BOOLEAN :
            GetVersionShaped(Caller, subject, version, deleted, format)
       \/ \E id \in Ids : GetBySubjectAndIdShaped(Caller, subject, id, format)
       \/ \E deleted \in BOOLEAN :
            GetLatestWithMetadataShaped(Caller, subject, deleted, format)
  \/ SendHttpRequest(Caller)
  \/ \E r \in CoreRegistryReplies : ReceiveHttp(Caller, r)

\* one caller looking up with every deleted flag and format
SpecShaped == RegistryInit /\ [][NextShaped]_vars

\* C38 as stated: a call answered from a cache has the deleted flag and the
\* format of the call that filled the entry: the call that follows a fetch
\* of the same key with another deleted flag or another format is not
\* answered from the cache.
C38_Original ==
  [][(/\ Fetched(ckey[Caller])
      /\ <<cpc'[Caller], cres'[Caller]>> # <<cpc[Caller], cres[Caller]>>
      /\ Shaped(ckey'[Caller], FALSE, "") = Shaped(ckey[Caller], FALSE, "")
      /\ cres'[Caller].kind = "hit")
       => /\ ckey'[Caller].deleted = ckey[Caller].deleted
          /\ ckey'[Caller].format = ckey[Caller].format]_vars

\* ------------------------------------------------ the reader schema that is used
\* the call went on to use a reader schema that a probe found
ReaderFound ==
  /\ deserialized.called
  /\ deserialized.reader_schema_raw.schema \notin {"none", "writer"}

\* C39 as stated: a reader schema that deserialize uses was found by probing
\* the final subject, the one resolved once the writer schema is known.
C39_Original ==
  ReaderFound => deserialized.reader_schema_raw.subject = deserialized.input.subject

\* what the code does keep: a reader schema found under the initial subject
\* is used after the subject changed only if the second probe found nothing
ReaderOfInitialSubject ==
  (ReaderFound /\ deserialized.reader_schema_raw.subject # deserialized.input.subject)
    => /\ deserialized.reader_schema_raw.subject = deserialized.input.initial_subject
       /\ deserialized.input.reader = "none"

\* ------------------------------------------------ clearing with calls in flight
\* the caches clearCaches empties
Caches == <<store, latestVersionCache, latestWithMetadataCache>>

\* thread u's call returns after clearCaches, begun after u's request went
\* out, has returned to whoever called it
ReturnsAfterClear(u) ==
  /\ cleared[u]
  /\ \A t \in Threads : cpc[t] # "clearing"
  /\ cpc[u] = "http" /\ cpc'[u] = "done"

\* C40 as stated: a lookup whose request was issued before clearCaches and
\* whose response arrives after clearCaches returned writes nothing to the
\* store or to the latest-version caches.
C40_Original ==
  [][\A u \in Threads : ReturnsAfterClear(u) => Caches' = Caches]_vars

\* what the code does keep: such a lookup writes only what its own response
\* holds, under the key it was called with
WritesOwnResponse ==
  [][\A u \in Threads :
       ReturnsAfterClear(u) =>
         \/ Caches' = Caches
         \/ /\ cres'[u].kind = "fetched"
            /\ \E r \in CoreRegistryReplies :
                 /\ store' = StoreAfterFetch(store, ckey[u], r)
                 /\ latestVersionCache' =
                      LatestAfterFetch(latestVersionCache, ckey[u], r, now)]_vars

====
